---- MODULE Spec2Model ----
(***************************************************************************)
(* Landing-page generation engine of LPS_creativ (FastAPI + SQLAlchemy on  *)
(* PostgreSQL).  The persistent store is modelled as the committed rows of *)
(* the tables workflow, template and landing_page under PostgreSQL's       *)
(* default READ COMMITTED isolation; every request handler runs in its own *)
(* SQLAlchemy session (get_db), whose flushed but uncommitted rows are     *)
(* kept in the session until commit or rollback.                           *)
(***************************************************************************)
EXTENDS Integers, Sequences, FiniteSets, TLC

\* ---------------------------------------------------------------- bounds
NumSessions == 2          \* request handlers that may run concurrently
MaxWorkflows == 1         \* workflow rows ever created
MaxTemplates == 2         \* template rows ever created
MaxLandingPageIds == 3    \* values drawn from the landing_page id sequence
MaxVideoIds == 2          \* length of a request's video_ids list
MaxMaxVideos == 2         \* largest max_videos a template is registered with
MaxTemplateIds == 2       \* length of a request's template_ids list

Sessions == 1..NumSessions

\* ------------------------------------------------------------ sequences
Range(s) == {s[i] : i \in 1..Len(s)}

SeqsUpTo(S, n) == UNION {[1..k -> S] : k \in 1..n}

Min(a, b) == IF a < b THEN a ELSE b

\* faulty variant of Take: the last n elements, seq[-n:]
TakeLast(s, n) == SubSeq(s, Len(s) - Min(n, Len(s)) + 1, Len(s))

\* Python's seq[:n] for n >= 0
Take(s, n) == SubSeq(s, 1, Min(n, Len(s)))

\* faulty variant of sorted: descending order
RECURSIVE descending(_)
descending(S) ==
  IF S = {} THEN << >>
  ELSE LET m == CHOOSE x \in S : \A y \in S : x >= y
       IN <<m>> \o descending(S \ {m})

\* Python's sorted(set)
RECURSIVE sorted(_)
sorted(S) ==
  IF S = {} THEN << >>
  ELSE LET m == CHOOSE x \in S : \A y \in S : x <= y
       IN <<m>> \o sorted(S \ {m})

\* the orders in which a SELECT without ORDER BY may return the rows S
Orders(S) == {f \in [1..Cardinality(S) -> S] : \A i, j \in 1..Cardinality(S) : f[i] = f[j] => i = j}

\* ---------------------------------------------------------------- paths
\* pathlib paths as tuples of parts; an absolute path starts with "/"
is_absolute(p) == Len(p) > 0 /\ p[1] = "/"

\* pathlib's a / b
Join(a, b) == IF is_absolute(b) THEN b ELSE a \o b

parent(p) == SubSeq(p, 1, Len(p) - 1)

_get_backend_root == <<"/", "LPS_creativ", "LPS", "backend">>

_get_generated_root == Join(_get_backend_root, <<"generated">>)

_get_templates_root == Join(parent(_get_backend_root), <<"templates">>)

project_root == parent(_get_backend_root)

repo_root == parent(project_root)

\* the working directory of the server process, against which the operating
\* system resolves a relative path
cwd == _get_backend_root

\* html_file_path values a template may be registered with
HtmlPaths == { <<"home", "index.html">>, <<"gone", "index.html">> }

\* the template files on disk
TemplateFiles == { Join(_get_templates_root, <<"home", "index.html">>) }

\* ---------------------------------------------------------------- state
VARIABLES
  workflow,          \* committed rows of table workflow: id -> [status]
  workflow_seq,      \* last value of the workflow id sequence
  template,          \* committed rows of table template: id -> [max_videos, html_file_path]
  template_seq,      \* last value of the template id sequence
  landing_page,      \* committed rows of table landing_page
  landing_page_seq,  \* last value of the landing_page id sequence
  video,             \* committed rows of table video: id -> [title]
  files,             \* regular files on disk, by absolute path
  session,           \* per running generate call: its position and its SQLAlchemy session
  returned           \* the call that has just returned, with its response

vars == <<workflow, workflow_seq, template, template_seq, landing_page,
          landing_page_seq, video, files, session, returned>>

db == <<workflow, workflow_seq, template, template_seq, landing_page, landing_page_seq,
        video>>

\* ------------------------------------------------------------ responses
\* code and data as the handler sets them; message holds the fixed text of the
\* handler's message and detail the values the handler formats into it
\* ("template needs more videos" and "landing page already exists" name the
\* two messages the source words in Chinese)
Response(code, message, detail, data) ==
  [code |-> code, message |-> message, detail |-> detail, data |-> data]

\* an uncaught exception: FastAPI answers 500 with no response model
InternalServerError == Response(500, "Internal Server Error", << >>, << >>)

NoResponse == Response(-1, "", << >>, << >>)

\* a handler slot in which no generate call is running
Idle ==
  [pc |-> "idle", workflow_id |-> 0, video_ids |-> << >>,
   template_ids |-> << >>, templates |-> << >>, pending |-> << >>]

\* a call as its caller sees it once it has returned: the request, the
\* response, the rows the call had inserted when its session rolled back, and
\* for a preview the page it wrote (path and the ids in its script tag), for
\* a delete the landing_page rows that went with the workflow; for a helper
\* of the handlers run by itself, its arguments and the value it gave
Call(op, s, workflow_id, video_ids, template_ids, response, rolled_back) ==
  [op |-> op, session |-> s, workflow_id |-> workflow_id, video_ids |-> video_ids,
   template_ids |-> template_ids, response |-> response, rolled_back |-> rolled_back,
   written |-> << >>, removed |-> {}, args |-> << >>, value |-> << >>]

NoCall == Call("", 0, 0, << >>, << >>, NoResponse, {})

\* the caller has received the response of the call that returned before
Delivered == returned = NoCall

\* the slot can take a new generate call
Free(s) == Delivered /\ session[s].pc = "idle"

\* generate returns before it has kept anything of the request in its session
Reject(s, workflow_id, video_ids, template_ids, response) ==
  /\ returned' = Call("generate", s, workflow_id, video_ids, template_ids, response, {})
  /\ UNCHANGED session

\* a generate call returns: get_db's finally closes the session, which rolls
\* back whatever was not committed
Return(s, response, rolled_back) ==
  /\ returned' = Call("generate", s, session[s].workflow_id, session[s].video_ids,
                      session[s].template_ids, response, rolled_back)
  /\ session' = [session EXCEPT ![s] = Idle]

\* a handler that runs as one transaction step returns
Reply(op, workflow_id, response) ==
  /\ returned' = Call(op, 0, workflow_id, << >>, << >>, response, {})
  /\ UNCHANGED session

\* a preview handler returns; written is << >> or the one page it wrote
PreviewReply(op, template_id, video_ids, response, written) ==
  /\ returned' = [Call(op, 0, 0, video_ids, <<template_id>>, response, {})
                    EXCEPT !.written = written]
  /\ UNCHANGED session

\* html_content as written: the output path and the list the script tag
\* carries, json.dumps(selected_ids)
Page(path, selected_ids) == <<[path |-> path, selected_ids |-> selected_ids]>>

\* a helper of the handlers, run by itself, has given its value
Gives(op, args, value) ==
  /\ Delivered
  /\ returned' = [NoCall EXCEPT !.op = op, !.args = args, !.value = value]
  /\ UNCHANGED <<db, files, session>>

\* the caller takes the response
deliver ==
  /\ ~Delivered
  /\ returned' = NoCall
  /\ UNCHANGED <<db, files, session>>

\* ----------------------------------------------------- table landing_page
LandingPage(id, workflow_id, template_id, selected_video_ids, generated_page_url) ==
  [id |-> id, workflow_id |-> workflow_id, template_id |-> template_id,
   selected_video_ids |-> selected_video_ids,
   generated_page_url |-> generated_page_url]

LandingPageItem(lp) ==
  [id |-> lp.id, template_id |-> lp.template_id,
   selected_video_ids |-> lp.selected_video_ids,
   generated_page_url |-> lp.generated_page_url]

\* rows a session inserted (flushed) and has not committed
Pending(s) == Range(session[s].pending)

\* UniqueConstraint uq_workflow_template, as PostgreSQL enforces it on INSERT:
\* another transaction's uncommitted row with the same key makes the INSERT wait
WaitsFor(s, workflow_id, template_id) ==
  {o \in Sessions \ {s} :
     \E lp \in Pending(o) : lp.workflow_id = workflow_id /\ lp.template_id = template_id}

\* the key the session's next INSERT carries
NextKey(s) ==
  [workflow_id |-> session[s].workflow_id,
   template_id |-> session[s].templates[Len(session[s].pending) + 1].id]

Inserting(s) == session[s].pc = "process"

\* faulty variant of Deadlocked: a database without deadlock detection
undetected(s) == FALSE

\* PostgreSQL's deadlock detector: s waits for o while o waits for s
Deadlocked(s) ==
  \E o \in WaitsFor(s, NextKey(s).workflow_id, NextKey(s).template_id) :
    Inserting(o) /\ s \in WaitsFor(o, NextKey(o).workflow_id, NextKey(o).template_id)

\* faulty variant of IntegrityError: the table without uq_workflow_template
ForeignKeyViolation(workflow_id, template_id) ==
  \/ workflow_id \notin DOMAIN workflow
  \/ template_id \notin DOMAIN template

\* a committed row with the same key, or a missing parent row (ForeignKey
\* workflow.id, ForeignKey template.id): IntegrityError
IntegrityError(workflow_id, template_id) ==
  \/ \E lp \in landing_page : lp.workflow_id = workflow_id /\ lp.template_id = template_id
  \/ workflow_id \notin DOMAIN workflow
  \/ template_id \notin DOMAIN template

\* ------------------------------------------------------------ filesystem
\* Path.is_file(); the operating system resolves a relative path against cwd
is_file(p) == Join(cwd, p) \in files

\* faulty variant of readable: the text is kept from the resolution
read_at_resolution(p, on_disk) == TRUE

\* Path.read_text() opens the file when it is called: a file that is not
\* on disk any more raises FileNotFoundError
readable(p, on_disk) == Join(cwd, p) \in on_disk

candidate_paths(raw_html_path) ==
  << raw_html_path,
     Join(project_root, raw_html_path),
     Join(repo_root, raw_html_path),
     Join(_get_templates_root, raw_html_path) >>

\* faulty variant of html_path: the loop has no break, the last candidate
\* that is a regular file wins
html_path_last(raw_html_path) ==
  LET c == candidate_paths(raw_html_path)
      hits == {i \in 1..Len(c) : is_file(c[i])}
  IN IF hits = {} THEN << >>
     ELSE c[CHOOSE i \in hits : \A j \in hits : i >= j]

\* the first candidate that is a regular file; << >> stands for None
html_path(raw_html_path) ==
  LET c == candidate_paths(raw_html_path)
      hits == {i \in 1..Len(c) : is_file(c[i])}
  IN IF hits = {} THEN << >>
     ELSE c[CHOOSE i \in hits : \A j \in hits : i <= j]

\* faulty variant of output_path: the file is named after the template's
\* place in the workflow directory, not after the landing page
output_path_index(workflow_id, lp_id) ==
  Join(Join(_get_generated_root, <<ToString(workflow_id)>>), <<"index.html">>)

\* generated/{workflow_id}/{landing_page_id}.html
output_path(workflow_id, lp_id) ==
  Join(Join(_get_generated_root, <<ToString(workflow_id)>>),
       <<ToString(lp_id) \o ".html">>)

\* app.mount("/generated", StaticFiles(directory=generated_dir)): the URL
\* under which the mount serves the file at path
RECURSIVE slashed(_)
slashed(parts) ==
  IF parts = << >> THEN ""
  ELSE IF Len(parts) = 1 THEN parts[1]
  ELSE parts[1] \o "/" \o slashed(Tail(parts))

mounted_url(path) ==
  "/generated/" \o slashed(SubSeq(path, Len(_get_generated_root) + 1, Len(path)))

\* faulty variant of generated_page_url: the placeholder of the flushed
\* row is never replaced
placeholder_url(workflow_id, lp_id) == ""

\* faulty variant of generated_page_url: one address per workflow
workflow_page_url(workflow_id, lp_id) ==
  "/generated/" \o ToString(workflow_id) \o ".html"

generated_page_url(workflow_id, lp_id) ==
  "/generated/" \o ToString(workflow_id) \o "/" \o ToString(lp_id) \o ".html"

\* what the filesystem may answer to read_text, mkdir and write_text
\* (open_error: the output file could not be created; write_error: it was
\* created and the write failed)
IoOutcomes == {"ok", "read_error", "mkdir_error", "open_error", "write_error"}

\* the text of the exception a failed read or write raised, f"{e}"
str_e == "OSError"

\* values uuid4().hex may take
Uuids == {"a3f1"}

\* generated/preview/{template_id}_{uuid}.html
preview_path(template_id, uuid) ==
  Join(Join(_get_generated_root, <<"preview">>),
       <<ToString(template_id) \o "_" \o uuid \o ".html">>)

preview_url(template_id, uuid) ==
  "/generated/preview/" \o ToString(template_id) \o "_" \o uuid \o ".html"

\* ------------------------------------------------------------------ text
\* a str is a tuple of pieces of text; the pieces are cut so that a pattern
\* occurs in a text exactly where its pieces stand in a row
HREF == "href=\""

SRC == "src=\""

DOT == "."

SLASH == "/"

BODY == "</body>"

NEWLINE == "\n"

SCRIPT == "<script id=\"lps-selected-videos\" type=\"application/json\">"

END_SCRIPT == "</script>"

\* str.startswith(prefix)
startswith(s, prefix) ==
  Len(s) >= Len(prefix) /\ SubSeq(s, 1, Len(prefix)) = prefix

\* old in s
contains(s, old) ==
  \E i \in 1..Len(s) : startswith(SubSeq(s, i, Len(s)), old)

\* str.replace(old, new, 1): the first occurrence only
RECURSIVE replace_first(_, _, _)
replace_first(s, old, new) ==
  IF s = << >> THEN << >>
  ELSE IF startswith(s, old)
  THEN new \o SubSeq(s, Len(old) + 1, Len(s))
  ELSE <<s[1]>> \o replace_first(Tail(s), old, new)

\* str.replace(old, new): every occurrence, found from the left, an
\* occurrence starting where the one before ended
RECURSIVE replace(_, _, _)
replace(s, old, new) ==
  IF s = << >> THEN << >>
  ELSE IF startswith(s, old)
  THEN new \o replace(SubSeq(s, Len(old) + 1, Len(s)), old, new)
  ELSE <<s[1]>> \o replace(Tail(s), old, new)

\* the text of one part of a path
PartText(part) ==
  CASE part = ".." -> <<DOT, DOT>>
    [] part = "href=\"." -> <<HREF, DOT>>
    [] OTHER -> <<part>>

\* PurePath.as_posix() of a relative path; the empty path is "."
RECURSIVE as_posix(_)
as_posix(p) ==
  IF p = << >> THEN <<DOT>>
  ELSE IF Len(p) = 1 THEN PartText(p[1])
  ELSE PartText(p[1]) \o <<SLASH>> \o as_posix(Tail(p))

\* a template row without static_assets_path (None, or the empty string)
NoAssets == <<"">>

\* faulty variant of static_prefix: the assets path is appended as it is
static_prefix_unchecked(static_assets_path) ==
  IF static_assets_path = NoAssets THEN <<SLASH, "templates">>
  ELSE <<SLASH, "templates", SLASH>> \o as_posix(static_assets_path)

\* static_prefix as the handlers derive it; relative_to raises ValueError
\* unless the parts of templates_root are the first parts of the path
static_prefix(static_assets_path) ==
  IF static_assets_path = NoAssets THEN <<SLASH, "templates">>
  ELSE LET assets_path == static_assets_path
           templates_root == _get_templates_root
           path == IF is_absolute(assets_path) THEN assets_path
                   ELSE Join(templates_root, assets_path)
       IN IF startswith(path, templates_root)
          THEN <<SLASH, "templates", SLASH>>
                 \o as_posix(SubSeq(path, Len(templates_root) + 1, Len(path)))
          ELSE <<SLASH, "templates">>

\* static_prefix as preview_landing_page derives it
preview_static_prefix(static_assets_path) ==
  IF static_assets_path = NoAssets THEN <<SLASH, "templates">>
  ELSE LET assets_path == static_assets_path
           templates_root == _get_templates_root
       IN IF is_absolute(assets_path)
          THEN IF startswith(assets_path, templates_root)
               THEN <<SLASH, "templates", SLASH>>
                      \o as_posix(SubSeq(assets_path, Len(templates_root) + 1,
                                         Len(assets_path)))
               ELSE <<SLASH, "templates">>
          ELSE LET joined == Join(templates_root, assets_path)
               IN IF startswith(joined, templates_root)
                  THEN <<SLASH, "templates", SLASH>>
                         \o as_posix(SubSeq(joined, Len(templates_root) + 1, Len(joined)))
                  ELSE <<SLASH, "templates">>

\* static_prefix as preview_template derives it, with the templates root
\* of templates.py
template_preview_static_prefix(static_assets_path) ==
  IF static_assets_path = NoAssets THEN <<SLASH, "templates">>
  ELSE LET assets_path == static_assets_path
           templates_root == Join(parent(_get_backend_root), <<"templates">>)
       IN IF is_absolute(assets_path)
          THEN IF startswith(assets_path, templates_root)
               THEN <<SLASH, "templates", SLASH>>
                      \o as_posix(SubSeq(assets_path, Len(templates_root) + 1,
                                         Len(assets_path)))
               ELSE <<SLASH, "templates">>
          ELSE LET joined == Join(templates_root, assets_path)
               IN IF startswith(joined, templates_root)
                  THEN <<SLASH, "templates", SLASH>>
                         \o as_posix(SubSeq(joined, Len(templates_root) + 1, Len(joined)))
                  ELSE <<SLASH, "templates">>

\* faulty variant of substitute: only the first occurrence of each pattern
substitute_first(html_content, prefix) ==
  replace_first(replace_first(html_content, <<HREF, DOT, SLASH>>, <<HREF>> \o prefix \o <<SLASH>>),
                <<SRC, DOT, SLASH>>, <<SRC>> \o prefix \o <<SLASH>>)

\* the two html_content.replace calls that rewrite ./ addresses
substitute(html_content, prefix) ==
  replace(replace(html_content, <<HREF, DOT, SLASH>>, <<HREF>> \o prefix \o <<SLASH>>),
          <<SRC, DOT, SLASH>>, <<SRC>> \o prefix \o <<SLASH>>)

\* faulty variant of json_dumps: the ids in ascending order, each once
RECURSIVE json_items(_)
json_items(ids) ==
  IF ids = << >> THEN << >>
  ELSE IF Len(ids) = 1 THEN <<ToString(ids[1])>>
  ELSE <<ToString(ids[1]), ", ">> \o json_items(Tail(ids))

json_dumps_sorted(ids) == <<"[">> \o json_items(sorted(Range(ids))) \o <<"]">>

\* json.dumps of a list of int
json_dumps(ids) == <<"[">> \o json_items(ids) \o <<"]">>

snippet(selected_ids) == <<SCRIPT>> \o json_dumps(selected_ids) \o <<END_SCRIPT>>

\* faulty variant of inject: the script tag always goes to the end
inject_at_end(html_content, selected_ids) == html_content \o snippet(selected_ids)

\* the script tag goes before the first </body>, or to the end
inject(html_content, selected_ids) ==
  IF contains(html_content, <<BODY>>)
  THEN replace_first(html_content, <<BODY>>, snippet(selected_ids) \o <<NEWLINE, BODY>>)
  ELSE html_content \o snippet(selected_ids)

\* ---------------------------------------------------------------- inputs
\* the order in which the callers list video ids
VideoOrder == <<20, 10, 30, 40>>

VideoIdLists == {Take(VideoOrder, n) : n \in 1..MaxVideoIds}

TemplateIdLists == SeqsUpTo(1..MaxTemplates, MaxTemplateIds)

\* ids the landing_page sequence still has to hand out to the running calls
Reserved(s) ==
  IF session[s].pc \in {"select_templates", "check_existing", "process"}
  THEN Cardinality(Range(session[s].template_ids)) - Len(session[s].pending)
  ELSE 0

RECURSIVE ReservedBy(_)
ReservedBy(S) ==
  IF S = {} THEN 0
  ELSE LET s == CHOOSE x \in S : TRUE IN Reserved(s) + ReservedBy(S \ {s})

\* ------------------------------------------------------ create_workflow
\* faulty variant of create_workflow: the workflow starts in pending_ad
create_workflow_pending_ad ==
  /\ Delivered
  /\ LET id == workflow_seq + 1 IN
       /\ workflow_seq' = id
       /\ workflow' = workflow @@ (id :> [status |-> "pending_ad"])
       /\ Reply("create_workflow", id, Response(0, "ok", << >>, <<"pending_ad">>))
  /\ UNCHANGED <<video, template, template_seq, landing_page, landing_page_seq, files>>

create_workflow ==
  /\ Delivered
  /\ LET id == workflow_seq + 1 IN
       /\ workflow_seq' = id
       /\ workflow' = workflow @@ (id :> [status |-> "draft"])
       /\ Reply("create_workflow", id, Response(0, "ok", << >>, <<"draft">>))
  /\ UNCHANGED <<video, template, template_seq, landing_page, landing_page_seq, files>>

\* ----------------------------------------------- generate_landing_pages
\* faulty variants of is_draft: no status check; only archived is refused
any_status(status) == TRUE

not_archived(status) == status # "archived"

\* the status generate asks of the workflow
is_draft(status) == status = "draft"

\* db.get(Workflow, workflow_id) and the status check
generate_get_workflow(s, workflow_id, video_ids, template_ids) ==
  /\ Free(s)
  /\ IF workflow_id \notin DOMAIN workflow
     THEN Reject(s, workflow_id, video_ids, template_ids,
                 Response(1, "workflow not found", <<workflow_id>>, << >>))
     ELSE IF ~is_draft(workflow[workflow_id].status)
     THEN Reject(s, workflow_id, video_ids, template_ids,
                 Response(1, "workflow is not in draft status", <<workflow_id>>, << >>))
     ELSE /\ session' = [session EXCEPT ![s] =
               [Idle EXCEPT !.pc = "select_templates",
                            !.workflow_id = workflow_id, !.video_ids = video_ids,
                            !.template_ids = template_ids]]
          /\ UNCHANGED returned
  /\ UNCHANGED <<db, files>>

\* the templates a SELECT ... WHERE id IN (template_ids) finds, as loaded rows
Loaded(order) ==
  [i \in 1..Len(order) |->
     [id |-> order[i], max_videos |-> template[order[i]].max_videos,
      html_file_path |-> template[order[i]].html_file_path]]

\* faulty variant of short_of_videos: no capacity check
never_short(templates, video_ids) == {}

\* the first template (in the order the rows came) that needs more videos
short_of_videos(templates, video_ids) ==
  {i \in 1..Len(templates) :
     /\ Len(video_ids) < templates[i].max_videos
     /\ \A j \in 1..(i - 1) : ~(Len(video_ids) < templates[j].max_videos)}

\* faulty variants of templates_missing: only an empty result fails; the
\* rows are counted against the list as sent
none_found(found, template_ids) == found = {}

fewer_than_listed(found, template_ids) == Cardinality(found) # Len(template_ids)

\* len(templates) != len(set(payload.template_ids))
templates_missing(found, template_ids) ==
  Cardinality(found) # Cardinality(Range(template_ids))

\* faulty variant of generate_select_templates: the video-count check comes
\* before the count check
generate_select_templates_count_last(s) ==
  LET r == session[s]
      found == DOMAIN template \cap Range(r.template_ids)
  IN
  /\ Delivered
  /\ r.pc = "select_templates"
  /\ \E order \in Orders(found) :
       LET templates == Loaded(order)
           short == short_of_videos(templates, r.video_ids)
       IN IF short # {}
          THEN LET t == templates[CHOOSE i \in short : TRUE] IN
               Return(s, Response(1, "template needs more videos",
                                <<t.id, t.max_videos, Len(r.video_ids)>>, << >>), {})
          ELSE IF templates_missing(found, r.template_ids)
          THEN Return(s, Response(1, "some templates not found", << >>, << >>), {})
          ELSE /\ session' = [session EXCEPT ![s].pc = "check_existing",
                                             ![s].templates = templates]
               /\ UNCHANGED returned
  /\ UNCHANGED <<db, files>>

\* the template query, the count check and the per-template video-count check
generate_select_templates(s) ==
  LET r == session[s]
      found == DOMAIN template \cap Range(r.template_ids)
  IN
  /\ Delivered
  /\ r.pc = "select_templates"
  /\ IF templates_missing(found, r.template_ids)
     THEN Return(s, Response(1, "some templates not found", << >>, << >>), {})
     ELSE \E order \in Orders(found) :
       LET templates == Loaded(order)
           short == short_of_videos(templates, r.video_ids)
       IN IF short # {}
          THEN LET t == templates[CHOOSE i \in short : TRUE] IN
               Return(s, Response(1, "template needs more videos",
                                <<t.id, t.max_videos, Len(r.video_ids)>>, << >>), {})
          ELSE /\ session' = [session EXCEPT ![s].pc = "check_existing",
                                             ![s].templates = templates]
               /\ UNCHANGED returned
  /\ UNCHANGED <<db, files>>

\* template ids of the request that already have a landing page in the workflow
existing_pairs(workflow_id, template_ids) ==
  {lp.template_id : lp \in
     {x \in landing_page :
        x.workflow_id = workflow_id /\ x.template_id \in Range(template_ids)}}

generate_check_existing(s) ==
  LET r == session[s]
      existing == existing_pairs(r.workflow_id, r.template_ids)
  IN
  /\ Delivered
  /\ r.pc = "check_existing"
  /\ IF existing # {}
     THEN Return(s, Response(1, "landing page already exists", sorted(existing), << >>), {})
     ELSE /\ session' = [session EXCEPT ![s].pc = "process"]
          /\ UNCHANGED returned
  /\ UNCHANGED <<db, files>>

\* faulty variant of rollback: the flushed rows stay in the table
keep_flushed(s) == landing_page' = landing_page \cup Pending(s)

\* db.rollback(), and the rollback of Session.close(): the rows the session
\* inserted and did not commit are not in the table
rollback(s) == landing_page' = landing_page \ Pending(s)

\* one pass of the loop over the loaded templates: INSERT and flush the
\* landing page, resolve and read the template file, write the output file
generate_process_template(s) ==
  LET r == session[s]
      t == r.templates[Len(r.pending) + 1]
      selected_ids == Take(r.video_ids, t.max_videos)
      id == landing_page_seq + 1
      found == html_path(t.html_file_path)
      \* the row as flushed, and as it is once the page is written
      flushed == LandingPage(id, r.workflow_id, t.id, selected_ids, "")
      lp == LandingPage(id, r.workflow_id, t.id, selected_ids,
                        generated_page_url(r.workflow_id, id))
      inserted == Pending(s) \cup {flushed}
  IN
  /\ Delivered
  /\ r.pc = "process"
  /\ WaitsFor(s, r.workflow_id, t.id) = {} \/ Deadlocked(s)
  /\ landing_page_seq' = id
  /\ IF Deadlocked(s) \/ IntegrityError(r.workflow_id, t.id)
     THEN /\ Return(s, InternalServerError, Pending(s))
          /\ rollback(s)
          /\ UNCHANGED files
     ELSE IF found = << >>
     THEN /\ Return(s, Response(1, "template html file not found",
                              <<t.html_file_path>>, << >>), inserted)
          /\ rollback(s)
          /\ UNCHANGED files
     ELSE \E io \in IoOutcomes :
       CASE io = "read_error" ->
              /\ Return(s, Response(1, "failed to read template html file",
                                   <<str_e>>, << >>), inserted)
              /\ rollback(s)
              /\ UNCHANGED files
         [] io = "mkdir_error" ->
              /\ Return(s, InternalServerError, inserted)
              /\ rollback(s)
              /\ UNCHANGED files
         [] io = "open_error" ->
              /\ Return(s, Response(1, "failed to write generated html file",
                                   <<str_e>>, << >>), inserted)
              /\ rollback(s)
              /\ UNCHANGED files
         [] io = "write_error" ->
              /\ Return(s, Response(1, "failed to write generated html file",
                                   <<str_e>>, << >>), inserted)
              /\ rollback(s)
              /\ files' = files \cup {output_path(r.workflow_id, id)}
         [] OTHER ->
              /\ files' = files \cup {output_path(r.workflow_id, id)}
              /\ session' = [session EXCEPT
                   ![s].pending = Append(r.pending, lp),
                   ![s].pc = IF Len(r.pending) + 1 = Len(r.templates)
                             THEN "commit" ELSE "process"]
              /\ UNCHANGED <<returned, landing_page>>
  /\ UNCHANGED <<video, workflow, workflow_seq, template, template_seq>>

\* faulty variant of generate_commit: the status and the first row are
\* committed, the other rows are not
generate_commit_first_row(s) ==
  LET r == session[s] IN
  /\ Delivered
  /\ r.pc = "commit"
  /\ landing_page' = landing_page \cup {r.pending[1]}
  /\ workflow' = [workflow EXCEPT ![r.workflow_id].status = "pending_ad"]
  /\ Return(s, Response(0, "ok", <<r.workflow_id>>,
                        [i \in 1..Len(r.pending) |-> LandingPageItem(r.pending[i])]),
            {})
  /\ UNCHANGED <<video, workflow_seq, template, template_seq, landing_page_seq, files>>

\* workflow.status = "pending_ad" and db.commit()
generate_commit(s) ==
  LET r == session[s] IN
  /\ Delivered
  /\ r.pc = "commit"
  /\ landing_page' = landing_page \cup Pending(s)
  /\ workflow' = [workflow EXCEPT ![r.workflow_id].status = "pending_ad"]
  /\ Return(s, Response(0, "ok", <<r.workflow_id>>,
                        [i \in 1..Len(r.pending) |-> LandingPageItem(r.pending[i])]),
            {})
  /\ UNCHANGED <<video, workflow_seq, template, template_seq, landing_page_seq, files>>

\* ------------------------------------------------- preview_landing_page
preview_landing_page(template_id, video_ids) ==
  /\ Delivered
  /\ IF template_id \notin DOMAIN template
     THEN /\ PreviewReply("preview", template_id, video_ids,
                          Response(1, "template not found", <<template_id>>, << >>), << >>)
          /\ UNCHANGED files
     ELSE LET t == template[template_id]
              selected_ids == Take(video_ids, t.max_videos)
          IN
       IF Len(video_ids) < t.max_videos
       THEN /\ PreviewReply("preview", template_id, video_ids,
                            Response(1, "template needs more videos",
                                     <<template_id, t.max_videos, Len(video_ids)>>, << >>),
                            << >>)
            /\ UNCHANGED files
       ELSE IF html_path(t.html_file_path) = << >>
       THEN /\ PreviewReply("preview", template_id, video_ids,
                            Response(1, "template html file not found",
                                     <<t.html_file_path>>, << >>), << >>)
            /\ UNCHANGED files
       ELSE \E io \in IoOutcomes, uuid \in Uuids :
         CASE io = "read_error" ->
                /\ PreviewReply("preview", template_id, video_ids,
                                Response(1, "failed to read template html file",
                                         <<str_e>>, << >>), << >>)
                /\ UNCHANGED files
           [] io = "mkdir_error" ->
                /\ PreviewReply("preview", template_id, video_ids, InternalServerError, << >>)
                /\ UNCHANGED files
           [] io = "open_error" ->
                /\ PreviewReply("preview", template_id, video_ids,
                                Response(1, "failed to write preview html file",
                                         <<str_e>>, << >>), << >>)
                /\ UNCHANGED files
           [] io = "write_error" ->
                /\ PreviewReply("preview", template_id, video_ids,
                                Response(1, "failed to write preview html file",
                                         <<str_e>>, << >>), << >>)
                /\ files' = files \cup {preview_path(template_id, uuid)}
           [] OTHER ->
                /\ PreviewReply("preview", template_id, video_ids,
                                Response(0, "ok", <<template_id>>,
                                         <<preview_url(template_id, uuid)>>),
                                Page(preview_path(template_id, uuid), selected_ids))
                /\ files' = files \cup {preview_path(template_id, uuid)}
  /\ UNCHANGED db

\* ----------------------------------------------------- preview_template
\* generated/template_preview/{template_id}_{uuid}.html
template_preview_path(template_id, uuid) ==
  Join(Join(_get_generated_root, <<"template_preview">>),
       <<ToString(template_id) \o "_" \o uuid \o ".html">>)

template_preview_url(template_id, uuid) ==
  "/generated/template_preview/" \o ToString(template_id) \o "_" \o uuid \o ".html"

\* faulty variant of preview_template: the preview is recorded as a landing
\* page of workflow 1
preview_template_recorded(template_id) ==
  /\ Delivered
  /\ template_id \in DOMAIN template
  /\ landing_page' = landing_page \cup
       {LandingPage(landing_page_seq + 1, 1, template_id, << >>, "")}
  /\ PreviewReply("template_preview", template_id, << >>,
                  Response(0, "ok", <<template_id>>, << >>), << >>)
  /\ UNCHANGED <<video, workflow, workflow_seq, template, template_seq, landing_page_seq, files>>

\* faulty variant of preview_template: the video count is checked as in
\* preview_landing_page, against the empty selection
preview_template_counted(template_id) ==
  /\ Delivered
  /\ IF template_id \notin DOMAIN template
     THEN PreviewReply("template_preview", template_id, << >>,
                       Response(1, "template not found", <<template_id>>, << >>), << >>)
     ELSE PreviewReply("template_preview", template_id, << >>,
                       Response(1, "template needs more videos",
                                <<template_id, template[template_id].max_videos, 0>>, << >>),
                       << >>)
  /\ UNCHANGED <<db, files>>

preview_template(template_id) ==
  /\ Delivered
  /\ IF template_id \notin DOMAIN template
     THEN /\ PreviewReply("template_preview", template_id, << >>,
                          Response(1, "template not found", <<template_id>>, << >>), << >>)
          /\ UNCHANGED files
     ELSE LET t == template[template_id] IN
       IF html_path(t.html_file_path) = << >>
       THEN /\ PreviewReply("template_preview", template_id, << >>,
                            Response(1, "template html file not found",
                                     <<t.html_file_path>>, << >>), << >>)
            /\ UNCHANGED files
       ELSE \E io \in IoOutcomes, uuid \in Uuids :
         CASE io = "read_error" ->
                /\ PreviewReply("template_preview", template_id, << >>,
                                Response(1, "failed to read template html file",
                                         <<str_e>>, << >>), << >>)
                /\ UNCHANGED files
           [] io = "mkdir_error" ->
                /\ PreviewReply("template_preview", template_id, << >>,
                                InternalServerError, << >>)
                /\ UNCHANGED files
           [] io = "open_error" ->
                /\ PreviewReply("template_preview", template_id, << >>,
                                Response(1, "failed to write template preview html file",
                                         <<str_e>>, << >>), << >>)
                /\ UNCHANGED files
           [] io = "write_error" ->
                /\ PreviewReply("template_preview", template_id, << >>,
                                Response(1, "failed to write template preview html file",
                                         <<str_e>>, << >>), << >>)
                /\ files' = files \cup {template_preview_path(template_id, uuid)}
           [] OTHER ->
                /\ PreviewReply("template_preview", template_id, << >>,
                                Response(0, "ok", <<template_id>>,
                                         <<template_preview_url(template_id, uuid)>>),
                                Page(template_preview_path(template_id, uuid), << >>))
                /\ files' = files \cup {template_preview_path(template_id, uuid)}
  /\ UNCHANGED db

\* ----------------------------------------------------- archive_workflow
\* faulty variant of archive_workflow: every existing workflow is archived
archive_workflow_any_status(workflow_id) ==
  /\ Delivered
  /\ IF workflow_id \notin DOMAIN workflow
     THEN /\ Reply("archive", workflow_id, Response(1, "workflow not found", <<workflow_id>>, << >>))
          /\ UNCHANGED workflow
     ELSE /\ workflow' = [workflow EXCEPT ![workflow_id].status = "archived"]
          /\ Reply("archive", workflow_id, Response(0, "ok", << >>, << >>))
  /\ UNCHANGED <<video, workflow_seq, template, template_seq, landing_page, landing_page_seq, files>>

archive_workflow(workflow_id) ==
  /\ Delivered
  /\ IF workflow_id \notin DOMAIN workflow
     THEN /\ Reply("archive", workflow_id, Response(1, "workflow not found", <<workflow_id>>, << >>))
          /\ UNCHANGED workflow
     ELSE IF workflow[workflow_id].status # "ready"
     THEN /\ Reply("archive", workflow_id, Response(1, "workflow is not in ready status", <<workflow_id>>, << >>))
          /\ UNCHANGED workflow
     ELSE /\ workflow' = [workflow EXCEPT ![workflow_id].status = "archived"]
          /\ Reply("archive", workflow_id, Response(0, "ok", << >>, << >>))
  /\ UNCHANGED <<video, workflow_seq, template, template_seq, landing_page, landing_page_seq, files>>

\* ------------------------------------------------------ delete_workflow
\* faulty variant of LockedWorkflow: the landing_page table without the
\* foreign key to workflow, so that an INSERT locks no workflow row
unlocked(workflow_id) == FALSE

\* an uncommitted landing_page row holds a key-share lock on its workflow
\* row (and on its template row), which makes a DELETE of that row wait
LockedWorkflow(workflow_id) ==
  \E o \in Sessions : \E lp \in Pending(o) : lp.workflow_id = workflow_id

LockedTemplate(template_id) ==
  \E o \in Sessions : \E lp \in Pending(o) : lp.template_id = template_id

\* a delete_workflow call returns after its commit
Deleted(workflow_id, removed) ==
  /\ returned' = [Call("delete", 0, workflow_id, << >>, << >>,
                        Response(0, "ok", << >>, << >>), {})
                    EXCEPT !.removed = removed]
  /\ UNCHANGED session

\* faulty variant of delete_workflow: the cascade takes every landing page
delete_workflow_all_pages(workflow_id) ==
  /\ Delivered
  /\ workflow_id \in DOMAIN workflow
  /\ ~LockedWorkflow(workflow_id)
  /\ workflow' = [w \in DOMAIN workflow \ {workflow_id} |-> workflow[w]]
  /\ landing_page' = {}
  /\ Deleted(workflow_id, landing_page)
  /\ UNCHANGED <<video, workflow_seq, template, template_seq, landing_page_seq, files>>

delete_workflow(workflow_id) ==
  /\ Delivered
  /\ IF workflow_id \notin DOMAIN workflow
     THEN /\ Reply("delete", workflow_id, Response(1, "workflow not found", <<workflow_id>>, << >>))
          /\ UNCHANGED <<workflow, landing_page>>
     ELSE /\ ~LockedWorkflow(workflow_id)
          /\ workflow' = [w \in DOMAIN workflow \ {workflow_id} |-> workflow[w]]
          \* ForeignKey("workflow.id", ondelete="CASCADE")
          /\ landing_page' = {lp \in landing_page : lp.workflow_id # workflow_id}
          /\ Deleted(workflow_id, {lp \in landing_page : lp.workflow_id = workflow_id})
  /\ UNCHANGED <<video, workflow_seq, template, template_seq, landing_page_seq, files>>

\* ------------------------------------------------------------ templates
create_template(max_videos, html_file_path) ==
  /\ Delivered
  /\ LET id == template_seq + 1 IN
       /\ template_seq' = id
       /\ template' = template @@
            (id :> [max_videos |-> max_videos, html_file_path |-> html_file_path])
       /\ Reply("create_template", 0, Response(0, "ok", <<id>>, << >>))
  /\ UNCHANGED <<video, workflow, workflow_seq, landing_page, landing_page_seq, files>>

update_template(template_id, max_videos, html_file_path) ==
  /\ Delivered
  /\ IF template_id \notin DOMAIN template
     THEN /\ Reply("update_template", 0, Response(1, "template not found", <<template_id>>, << >>))
          /\ UNCHANGED template
     ELSE /\ template' = [template EXCEPT ![template_id] =
                 [max_videos |-> max_videos, html_file_path |-> html_file_path]]
          /\ Reply("update_template", 0, Response(0, "ok", <<template_id>>, << >>))
  /\ UNCHANGED <<video, workflow, workflow_seq, template_seq, landing_page, landing_page_seq, files>>

\* faulty variant of delete_template: the landing pages of the template are
\* deleted with it
delete_template_cascade(template_id) ==
  /\ Delivered
  /\ template_id \in DOMAIN template
  /\ ~LockedTemplate(template_id)
  /\ template' = [t \in DOMAIN template \ {template_id} |-> template[t]]
  /\ landing_page' = {lp \in landing_page : lp.template_id # template_id}
  /\ Reply("delete_template", 0, Response(0, "ok", << >>, << >>))
  /\ UNCHANGED <<video, workflow, workflow_seq, template_seq, landing_page_seq, files>>

delete_template(template_id) ==
  /\ Delivered
  /\ IF template_id \notin DOMAIN template
     THEN /\ Reply("delete_template", 0, Response(1, "template not found", <<template_id>>, << >>))
          /\ UNCHANGED template
     ELSE /\ ~LockedTemplate(template_id)
          \* ForeignKey("template.id") without ON DELETE: a referenced row
          \* cannot be deleted, the DELETE raises IntegrityError
          /\ IF \E lp \in landing_page : lp.template_id = template_id
             THEN /\ Reply("delete_template", 0, InternalServerError)
                  /\ UNCHANGED template
             ELSE /\ template' = [t \in DOMAIN template \ {template_id} |-> template[t]]
                  /\ Reply("delete_template", 0, Response(0, "ok", << >>, << >>))
  /\ UNCHANGED <<video, workflow, workflow_seq, template_seq, landing_page, landing_page_seq, files>>

\* ------------------------------------------- the template file is removed
\* one pass of the loop of generate during which the template file is
\* removed from disk after the resolution loop found it and before
\* read_text opens it
generate_process_template_unlinked(s) ==
  LET r == session[s]
      t == r.templates[Len(r.pending) + 1]
      selected_ids == Take(r.video_ids, t.max_videos)
      id == landing_page_seq + 1
      found == html_path(t.html_file_path)
      on_disk == files \ {Join(cwd, found)}
      flushed == LandingPage(id, r.workflow_id, t.id, selected_ids, "")
      lp == LandingPage(id, r.workflow_id, t.id, selected_ids,
                        generated_page_url(r.workflow_id, id))
      inserted == Pending(s) \cup {flushed}
  IN
  /\ Delivered
  /\ r.pc = "process"
  /\ WaitsFor(s, r.workflow_id, t.id) = {}
  /\ ~IntegrityError(r.workflow_id, t.id)
  /\ found # << >>
  /\ landing_page_seq' = id
  /\ IF ~readable(found, on_disk)
     THEN /\ Return(s, Response(1, "failed to read template html file",
                              <<str_e>>, << >>), inserted)
          /\ rollback(s)
          /\ files' = on_disk
     ELSE /\ files' = on_disk \cup {output_path(r.workflow_id, id)}
          /\ session' = [session EXCEPT
               ![s].pending = Append(r.pending, lp),
               ![s].pc = IF Len(r.pending) + 1 = Len(r.templates)
                         THEN "commit" ELSE "process"]
          /\ UNCHANGED <<returned, landing_page>>
  /\ UNCHANGED <<video, workflow, workflow_seq, template, template_seq>>

\* the same removal during preview_landing_page
preview_landing_page_unlinked(template_id, video_ids) ==
  /\ Delivered
  /\ template_id \in DOMAIN template
  /\ LET t == template[template_id]
         selected_ids == Take(video_ids, t.max_videos)
         found == html_path(t.html_file_path)
         on_disk == files \ {Join(cwd, found)}
     IN
     /\ ~(Len(video_ids) < t.max_videos)
     /\ found # << >>
     /\ IF ~readable(found, on_disk)
        THEN /\ PreviewReply("preview", template_id, video_ids,
                             Response(1, "failed to read template html file",
                                      <<str_e>>, << >>), << >>)
             /\ files' = on_disk
        ELSE \E uuid \in Uuids :
             /\ PreviewReply("preview", template_id, video_ids,
                             Response(0, "ok", <<template_id>>,
                                      <<preview_url(template_id, uuid)>>),
                             Page(preview_path(template_id, uuid), selected_ids))
             /\ files' = on_disk \cup {preview_path(template_id, uuid)}
  /\ UNCHANGED db

\* the same removal during preview_template
preview_template_unlinked(template_id) ==
  /\ Delivered
  /\ template_id \in DOMAIN template
  /\ LET t == template[template_id]
         found == html_path(t.html_file_path)
         on_disk == files \ {Join(cwd, found)}
     IN
     /\ found # << >>
     /\ IF ~readable(found, on_disk)
        THEN /\ PreviewReply("template_preview", template_id, << >>,
                             Response(1, "failed to read template html file",
                                      <<str_e>>, << >>), << >>)
             /\ files' = on_disk
        ELSE \E uuid \in Uuids :
             /\ PreviewReply("template_preview", template_id, << >>,
                             Response(0, "ok", <<template_id>>,
                                      <<template_preview_url(template_id, uuid)>>),
                             Page(template_preview_path(template_id, uuid), << >>))
             /\ files' = on_disk \cup {template_preview_path(template_id, uuid)}
  /\ UNCHANGED db

\* -------------------------------------------------------- specification
\* the landing_page id sequence can serve one more call for these templates
\* (a call that is rejected at once draws no id)
Budget(s, workflow_id, template_ids) ==
  IF workflow_id \in DOMAIN workflow /\ workflow[workflow_id].status = "draft"
  THEN landing_page_seq + ReservedBy(Sessions \ {s}) + Cardinality(Range(template_ids))
         <= MaxLandingPageIds
  ELSE TRUE

\* a deployment with two registered templates, the second of which may
\* name an html file that is not on disk
RegisteredTemplates ==
  { (1 :> [max_videos |-> 1, html_file_path |-> <<"home", "index.html">>]) @@
    (2 :> [max_videos |-> 2, html_file_path |-> p]) : p \in HtmlPaths }

InitStore ==
  /\ workflow = << >>
  /\ workflow_seq = 0
  /\ landing_page = {}
  /\ landing_page_seq = 0
  /\ video = [id \in Range(Take(VideoOrder, MaxVideoIds)) |-> [title |-> "clip"]]
  /\ files = TemplateFiles
  /\ session = [s \in Sessions |-> Idle]
  /\ returned = NoCall

\* concurrent generate calls against a store with registered templates
Init ==
  /\ InitStore
  /\ template \in RegisteredTemplates
  /\ template_seq = 2

generate(s) ==
  \/ \E w \in 1..MaxWorkflows, v \in VideoIdLists, t \in TemplateIdLists :
       Budget(s, w, t) /\ generate_get_workflow(s, w, v, t)
  \/ generate_select_templates(s)
  \/ generate_check_existing(s)
  \/ generate_process_template(s)
  \/ generate_commit(s)

workflows ==
  \/ workflow_seq < MaxWorkflows /\ create_workflow
  \/ \E w \in 1..MaxWorkflows : archive_workflow(w)
  \/ \E w \in 1..MaxWorkflows : delete_workflow(w)

Next ==
  \/ deliver
  \/ workflows
  \/ \E s \in Sessions : generate(s)

Spec == Init /\ [][Next]_vars

\* the collaborator outside the engine that completes the ad upload of a
\* workflow waiting for it
mark_ready(workflow_id) ==
  /\ Delivered
  /\ workflow_id \in DOMAIN workflow
  /\ workflow[workflow_id].status = "pending_ad"
  /\ workflow' = [workflow EXCEPT ![workflow_id].status = "ready"]
  /\ UNCHANGED <<video, workflow_seq, template, template_seq, landing_page, landing_page_seq,
                 files, session, returned>>

NextEnv ==
  \/ Next
  \/ \E w \in 1..MaxWorkflows : mark_ready(w)

\* the engine together with that collaborator
SpecEnv == Init /\ [][NextEnv]_vars

\* every handler and the ad-upload collaborator, one generate call at a
\* time, from an empty store
InitAll ==
  /\ InitStore
  /\ template = << >>
  /\ template_seq = 0

\* html_file_path values that name a file on disk
OnDisk == {p \in HtmlPaths : html_path(p) # << >>}

templates(paths) ==
  \/ \E m \in 1..MaxMaxVideos, p \in paths :
       template_seq < MaxTemplates /\ create_template(m, p)
  \/ \E t \in 1..MaxTemplates, m \in 1..MaxMaxVideos, p \in paths :
       update_template(t, m, p)
  \/ \E t \in 1..MaxTemplates : delete_template(t)

previews ==
  \E t \in 1..MaxTemplates, v \in VideoIdLists : preview_landing_page(t, v)

NextAll ==
  \/ deliver
  \/ workflows
  \/ generate(1)
  \/ previews
  \/ templates(OnDisk)
  \/ \E w \in 1..MaxWorkflows : mark_ready(w)

SpecAll == InitAll /\ [][NextAll]_vars

\* concurrent generate calls interleaved with previews, archive and delete
NextMix ==
  \/ Next
  \/ previews

SpecMix == Init /\ [][NextMix]_vars

\* overlapping generate calls that send the longest video list, with one
\* more landing_page id than elsewhere, so that two calls can both ask for
\* two templates of one workflow
RaceRequest(s) ==
  \E w \in 1..MaxWorkflows, t \in TemplateIdLists :
    /\ IF w \in DOMAIN workflow /\ workflow[w].status = "draft"
       THEN landing_page_seq + ReservedBy(Sessions \ {s}) + Cardinality(Range(t))
              <= MaxLandingPageIds + 1
       ELSE TRUE
    /\ generate_get_workflow(s, w, Take(VideoOrder, MaxVideoIds), t)

NextRace ==
  \/ deliver
  \/ workflow_seq < MaxWorkflows /\ create_workflow
  \/ \E s \in Sessions :
       \/ RaceRequest(s)
       \/ generate_select_templates(s)
       \/ generate_check_existing(s)
       \/ generate_process_template(s)
       \/ generate_commit(s)

SpecRace == Init /\ [][NextRace]_vars

\* concurrent generate calls against a store in which template 1 asks for
\* two videos and template 2 has been deleted
InitOrder ==
  /\ InitStore
  /\ template = (1 :> [max_videos |-> 2, html_file_path |-> <<"home", "index.html">>])
  /\ template_seq = 2

SpecOrder == InitOrder /\ [][Next]_vars

\* --------------------------------------------------------------- videos
update_video(video_id, title) ==
  /\ Delivered
  /\ IF video_id \notin DOMAIN video
     THEN /\ Reply("update_video", 0, Response(1, "video not found", <<video_id>>, << >>))
          /\ UNCHANGED video
     ELSE /\ video' = [video EXCEPT ![video_id].title = title]
          /\ Reply("update_video", 0, Response(0, "ok", <<video_id>>, << >>))
  /\ UNCHANGED <<workflow, workflow_seq, template, template_seq, landing_page,
                 landing_page_seq, files>>

delete_video(video_id) ==
  /\ Delivered
  /\ IF video_id \notin DOMAIN video
     THEN /\ Reply("delete_video", 0, Response(1, "video not found", <<video_id>>, << >>))
          /\ UNCHANGED video
     ELSE /\ video' = [v \in DOMAIN video \ {video_id} |-> video[v]]
          /\ Reply("delete_video", 0, Response(0, "ok", << >>, << >>))
  /\ UNCHANGED <<workflow, workflow_seq, template, template_seq, landing_page,
                 landing_page_seq, files>>

\* one generate call at a time against registered templates, with archive
\* and delete, the ad-upload collaborator, a preview, and edits and
\* deletions of the templates and of the first video the callers list
videos ==
  \/ update_video(VideoOrder[1], "retitled")
  \/ delete_video(VideoOrder[1])

NextRecords ==
  \/ deliver
  \/ workflows
  \/ \E w \in 1..MaxWorkflows : mark_ready(w)
  \/ generate(1)
  \/ preview_landing_page(1, Take(VideoOrder, MaxVideoIds))
  \/ \E m \in 1..MaxMaxVideos, p \in OnDisk : update_template(1, m, p)
  \/ \E t \in 1..MaxTemplates : delete_template(t)
  \/ videos

SpecRecords == Init /\ [][NextRecords]_vars

\* two workflows, each generated with one template by calls made one at a
\* time, taken through ready and archived, and deleted in any status
TwoWorkflows == 1..(MaxWorkflows + 1)

OneTemplateRequest ==
  \E w \in TwoWorkflows, t \in 1..MaxTemplates :
    /\ Budget(1, w, <<t>>)
    /\ generate_get_workflow(1, w, Take(VideoOrder, MaxVideoIds), <<t>>)

NextDelete ==
  \/ deliver
  \/ workflow_seq < MaxWorkflows + 1 /\ create_workflow
  \/ OneTemplateRequest
  \/ generate_select_templates(1)
  \/ generate_check_existing(1)
  \/ generate_process_template(1)
  \/ generate_commit(1)
  \/ \E w \in TwoWorkflows : mark_ready(w)
  \/ \E w \in TwoWorkflows : archive_workflow(w)
  \/ \E w \in TwoWorkflows : delete_workflow(w)

SpecDelete == Init /\ [][NextDelete]_vars

\* the resolution loop by itself, for relative and absolute paths and every
\* set of files at the places the candidates name
ResolvePaths ==
  { <<"home", "index.html">>,
    <<"templates", "home", "index.html">>,
    <<"/", "srv", "index.html">> }

ResolvePlaces ==
  UNION { {Join(cwd, candidate_paths(p)[i]) : i \in 1..4} : p \in ResolvePaths }

InitResolve ==
  /\ InitStore
  /\ template = << >>
  /\ template_seq = 0

resolve(raw_html_path) ==
  Gives("html_path", <<raw_html_path>>, html_path(raw_html_path))

\* the files come and go between two resolutions
touch(path) ==
  /\ Delivered
  /\ files' = IF path \in files THEN files \ {path} ELSE files \cup {path}
  /\ UNCHANGED <<db, session, returned>>

NextResolve ==
  \/ deliver
  \/ \E p \in ResolvePaths : resolve(p)
  \/ \E f \in ResolvePlaces : touch(f)

SpecResolve == InitResolve /\ [][NextResolve]_vars

\* the rewriting steps by themselves, for documents made of up to three
\* pieces, the stored assets paths and id lists below
MaxPieces == 3

Pieces ==
  { <<HREF, DOT, SLASH>>, <<SRC, DOT, SLASH>>, <<HREF>>, <<DOT, SLASH>>,
    <<"a.css">>, <<BODY>> }

RECURSIVE Flat(_)
Flat(ss) == IF ss = << >> THEN << >> ELSE ss[1] \o Flat(Tail(ss))

Documents == {<< >>} \cup {Flat(ss) : ss \in SeqsUpTo(Pieces, MaxPieces)}

AssetsPaths ==
  { NoAssets,
    <<"home">>,
    Join(_get_templates_root, <<"home", "static">>),
    _get_templates_root,
    <<"/", "srv", "assets">>,
    <<"..", "secret">>,
    <<"href=\".">> }

IdLists == {<< >>} \cup SeqsUpTo(Range(Take(VideoOrder, MaxVideoIds)), MaxVideoIds)

rewrite_prefix(static_assets_path) ==
  Gives("static_prefix", <<static_assets_path>>, static_prefix(static_assets_path))

rewrite_preview_prefix(static_assets_path) ==
  Gives("preview_static_prefix", <<static_assets_path>>,
        preview_static_prefix(static_assets_path))

rewrite_template_preview_prefix(static_assets_path) ==
  Gives("template_preview_static_prefix", <<static_assets_path>>,
        template_preview_static_prefix(static_assets_path))

rewrite_substitute(html_content, static_assets_path) ==
  Gives("substitute", <<html_content, static_assets_path>>,
        substitute(html_content, static_prefix(static_assets_path)))

rewrite_dumps(selected_ids) ==
  Gives("json_dumps", <<selected_ids>>, json_dumps(selected_ids))

rewrite_inject(html_content, selected_ids) ==
  Gives("inject", <<html_content, selected_ids>>, inject(html_content, selected_ids))

NextRewrite ==
  \/ deliver
  \/ \E a \in AssetsPaths : rewrite_prefix(a)
  \/ \E a \in AssetsPaths : rewrite_preview_prefix(a)
  \/ \E a \in AssetsPaths : rewrite_template_preview_prefix(a)
  \/ \E d \in Documents, a \in AssetsPaths : rewrite_substitute(d, a)
  \/ \E ids \in IdLists : rewrite_dumps(ids)
  \/ \E d \in Documents, ids \in IdLists : rewrite_inject(d, ids)

SpecRewrite == InitResolve /\ [][NextRewrite]_vars

\* ------------------------------------------------------------- page text
\* the text of the template file at a place on disk: every file names its
\* own place, and the files at the deeper places have two </body>
FileText(place) ==
  <<HREF, DOT, SLASH, slashed(place)>> \o
    (IF Len(place) > Len(_get_templates_root) + 1
     THEN <<BODY, SRC, DOT, SLASH, "a.js", BODY>>
     ELSE <<SRC, DOT, SLASH, "a.js">>)

\* html_path.read_text(encoding="utf-8")
read_text(p) == FileText(Join(cwd, p))

\* html_content as generate writes it for the loaded template t
generate_html_content(t, video_ids) ==
  LET selected_ids == Take(video_ids, t.max_videos)
      html_content == read_text(html_path(t.html_file_path))
  IN inject(substitute(html_content, static_prefix(t.static_assets_path)), selected_ids)

\* html_content as preview_landing_page writes it
preview_html_content(template_row, video_ids) ==
  LET selected_ids == Take(video_ids, template_row.max_videos)
      raw_html_path == template_row.html_file_path
      paths == << raw_html_path,
                  Join(parent(_get_backend_root), raw_html_path),
                  Join(parent(parent(_get_backend_root)), raw_html_path),
                  Join(_get_templates_root, raw_html_path) >>
      first == CHOOSE i \in 1..4 :
                 is_file(paths[i]) /\ \A j \in 1..(i - 1) : ~is_file(paths[j])
      read == read_text(paths[first])
      prefix == preview_static_prefix(template_row.static_assets_path)
      hrefs == replace(read, <<HREF, DOT, SLASH>>, <<HREF>> \o prefix \o <<SLASH>>)
      srcs == replace(hrefs, <<SRC, DOT, SLASH>>, <<SRC>> \o prefix \o <<SLASH>>)
      tag == <<SCRIPT>> \o json_dumps(selected_ids) \o <<END_SCRIPT>>
  IN IF contains(srcs, <<BODY>>)
     THEN replace_first(srcs, <<BODY>>, tag \o <<NEWLINE, BODY>>)
     ELSE srcs \o tag

\* html_content as preview_template writes it
template_preview_html_content(template_row) ==
  LET raw_html_path == template_row.html_file_path
      paths == << raw_html_path,
                  Join(parent(_get_backend_root), raw_html_path),
                  Join(parent(parent(_get_backend_root)), raw_html_path),
                  Join(Join(parent(_get_backend_root), <<"templates">>), raw_html_path) >>
      first == CHOOSE i \in 1..4 :
                 is_file(paths[i]) /\ \A j \in 1..(i - 1) : ~is_file(paths[j])
      read == read_text(paths[first])
      prefix == template_preview_static_prefix(template_row.static_assets_path)
      hrefs == replace(read, <<HREF, DOT, SLASH>>, <<HREF>> \o prefix \o <<SLASH>>)
      srcs == replace(hrefs, <<SRC, DOT, SLASH>>, <<SRC>> \o prefix \o <<SLASH>>)
      tag == <<SCRIPT>> \o json_dumps(<< >>) \o <<END_SCRIPT>>
  IN IF contains(srcs, <<BODY>>)
     THEN replace_first(srcs, <<BODY>>, tag \o <<NEWLINE, BODY>>)
     ELSE srcs \o tag

\* template rows as the handlers load them
LoadedTemplates ==
  [max_videos : 1..MaxMaxVideos, html_file_path : ResolvePaths,
   static_assets_path : AssetsPaths]

\* the pass of generate up to html_content, for a template whose file
\* resolves and a list that has the videos the template needs
render_generate(t, video_ids) ==
  /\ html_path(t.html_file_path) # << >>
  /\ ~(Len(video_ids) < t.max_videos)
  /\ Gives("generate_html_content", <<t, video_ids>>, generate_html_content(t, video_ids))

render_preview(t, video_ids) ==
  /\ html_path(t.html_file_path) # << >>
  /\ ~(Len(video_ids) < t.max_videos)
  /\ Gives("preview_html_content", <<t, video_ids>>, preview_html_content(t, video_ids))

render_template_preview(t) ==
  /\ html_path(t.html_file_path) # << >>
  /\ Gives("template_preview_html_content", <<t, << >> >>,
           template_preview_html_content(t))

\* the three handlers' page text over every set of template files
NextRender ==
  \/ deliver
  \/ \E f \in ResolvePlaces : touch(f)
  \/ \E t \in LoadedTemplates, v \in VideoIdLists : render_generate(t, v)
  \/ \E t \in LoadedTemplates, v \in VideoIdLists : render_preview(t, v)
  \/ \E t \in LoadedTemplates : render_template_preview(t)

SpecRender == InitResolve /\ [][NextRender]_vars

\* overlapping generate calls, each handler running on a worker thread of
\* its own that is scheduled again and again until the handler returns, and
\* every response reaching its caller
proceed(s) ==
  \/ generate_select_templates(s)
  \/ generate_check_existing(s)
  \/ generate_process_template(s)
  \/ generate_commit(s)

Fairness ==
  /\ WF_vars(deliver)
  /\ \A s \in Sessions : SF_vars(proceed(s))

SpecFair == Init /\ [][NextRace]_vars /\ Fairness

\* both preview operations against a store that generate calls fill, with
\* template 2 deleted on the way
template_previews == \E t \in 1..MaxTemplates : preview_template(t)

NextPreview ==
  \/ deliver
  \/ workflows
  \/ generate(1)
  \/ previews
  \/ template_previews
  \/ delete_template(2)

SpecPreview == Init /\ [][NextPreview]_vars

\* one generate call at a time and both previews, with a template file
\* that is removed between resolution and read and put back later
restore(path) ==
  /\ Delivered
  /\ path \notin files
  /\ files' = files \cup {path}
  /\ UNCHANGED <<db, session, returned>>

NextUnlink ==
  \/ deliver
  \/ workflow_seq < MaxWorkflows /\ create_workflow
  \/ generate(1)
  \/ generate_process_template_unlinked(1)
  \/ previews
  \/ \E t \in 1..MaxTemplates, v \in VideoIdLists : preview_landing_page_unlinked(t, v)
  \/ template_previews
  \/ \E t \in 1..MaxTemplates : preview_template_unlinked(t)
  \/ \E f \in TemplateFiles : restore(f)

SpecUnlink == Init /\ [][NextUnlink]_vars

\* requests served one at a time: a request is taken when no generate call
\* is under way
NextSeq ==
  \/ deliver
  \/ generate(1)
  \/ session[1] = Idle /\ workflows
  \/ \E w \in 1..MaxWorkflows : session[1] = Idle /\ mark_ready(w)
  \/ session[1] = Idle /\ previews
  \/ session[1] = Idle /\ templates(HtmlPaths)

SpecSeq == InitAll /\ [][NextSeq]_vars

\* ------------------------------------------------------------ properties
\* a generate call that has just returned
Generated == returned.op = "generate"

Succeeded == Generated /\ returned.response.code = 0

\* the landing pages persisted for a workflow
PagesOf(workflow_id) == {lp \in landing_page : lp.workflow_id = workflow_id}

\* this step is the one in which slot s takes a generate request
Received(s) ==
  /\ Free(s)
  /\ \/ session'[s].pc # "idle"
     \/ returned'.op = "generate" /\ returned'.session = s

\* the request of the call that slot s takes in this step
ReceivedWorkflow(s) ==
  IF session'[s].pc # "idle" THEN session'[s].workflow_id ELSE returned'.workflow_id

ReceivedTemplates(s) ==
  IF session'[s].pc # "idle" THEN session'[s].template_ids ELSE returned'.template_ids

PerTemplateFailures ==
  { "template html file not found",
    "failed to read template html file",
    "failed to write generated html file" }

\* a generate call returned a per-template failure after an earlier template
\* of the same call had been written
FailedAfterSuccess ==
  /\ Generated
  /\ returned.response.message \in PerTemplateFailures
  /\ \E lp \in returned.rolled_back : lp.generated_page_url # ""

\* C1: once a generate call has returned a per-template failure (html file
\* not found, read failure, write failure) after at least one earlier
\* template of the call had succeeded, no landing page the call created is
\* persisted, the workflow is still in draft, and the call has stopped at the
\* failing template: it holds no further row and processes no further template.
C1_FailureAfterSuccessRollsBack ==
  FailedAfterSuccess =>
    /\ \A lp \in returned.rolled_back : \A x \in landing_page : x.id # lp.id
    /\ PagesOf(returned.workflow_id) = {}
    /\ returned.workflow_id \in DOMAIN workflow
    /\ workflow[returned.workflow_id].status = "draft"
    /\ session[returned.session] = Idle
    /\ Cardinality({lp \in returned.rolled_back : lp.generated_page_url = ""}) = 1
    /\ Cardinality(returned.rolled_back) <= Cardinality(Range(returned.template_ids))

C1_Witness ==
  /\ FailedAfterSuccess
  /\ Cardinality(returned.rolled_back) = 2
  /\ workflow[returned.workflow_id].status = "draft"

\* C2: of the generate calls that run concurrently on one workflow at most
\* one observes draft and commits: when a generate call returns success, the
\* landing pages persisted for its workflow are the ones it reports, none
\* comes from another call.
C2_AtMostOneCallCommits ==
  Succeeded =>
    {lp.id : lp \in PagesOf(returned.workflow_id)} =
      {returned.response.data[i].id : i \in DOMAIN returned.response.data}

\* C3: the landing pages of a successful generate call and the status change
\* to pending_ad become visible together, in one commit: a step that adds a
\* landing page of a workflow, or that turns its status to pending_ad, is the
\* commit of one call, adds every row of that call (one for each distinct
\* requested template) and leaves the status pending_ad; and no state shows a
\* workflow in pending_ad without landing pages.
C3_BatchVisibleInOneCommit ==
  [][\A w \in DOMAIN workflow' :
       LET added == {lp \in landing_page' \ landing_page : lp.workflow_id = w}
           turned == /\ w \in DOMAIN workflow
                     /\ workflow[w].status # "pending_ad"
                     /\ workflow'[w].status = "pending_ad"
       IN /\ (added # {} \/ turned) =>
               \E s \in Sessions :
                 /\ session[s].pc = "commit"
                 /\ session[s].workflow_id = w
                 /\ added = Range(session[s].pending)
                 /\ {lp.template_id : lp \in added} = Range(session[s].template_ids)
                 /\ Cardinality(added) = Cardinality(Range(session[s].template_ids))
                 /\ workflow'[w].status = "pending_ad"
                 /\ returned'.response.code = 0
                 /\ returned'.session = s
          /\ workflow'[w].status = "pending_ad" =>
               \E lp \in landing_page' : lp.workflow_id = w]_vars

C3_Witness ==
  /\ Succeeded
  /\ Len(returned.response.data) = 2
  /\ Cardinality(PagesOf(returned.workflow_id)) = 2
  /\ workflow[returned.workflow_id].status = "pending_ad"

\* C4: at most one persisted landing page for a (workflow id, template id)
\* pair, whatever the interleaving of generate, preview, archive and delete.
C4_OnePagePerPair ==
  \A a \in landing_page, b \in landing_page :
    (a.workflow_id = b.workflow_id /\ a.template_id = b.template_id) => a = b

\* a generate call was refused by the unique constraint: the pair it tried
\* to insert is the persisted pair of another call (a preview has run too)
C4_Witness ==
  /\ \E t \in 1..MaxTemplates, uuid \in Uuids : preview_path(t, uuid) \in files
  /\ Generated
  /\ returned.response = InternalServerError
  /\ existing_pairs(returned.workflow_id, returned.template_ids) # {}

\* C5 as stated: a generate call for a (workflow, template) pair that an
\* earlier, successful call has generated fails with "landing page already
\* exists", listing the template id, and one landing page exists for the pair.
C5_SecondCallFailsAsDuplicate ==
  [][\A s \in Sessions :
       (Received(s) /\ existing_pairs(ReceivedWorkflow(s), ReceivedTemplates(s)) # {}) =>
          /\ returned'.op = "generate"
          /\ returned'.response.message = "landing page already exists"
          /\ \A t \in existing_pairs(ReceivedWorkflow(s), ReceivedTemplates(s)) :
               /\ \E i \in DOMAIN returned'.response.detail :
                    returned'.response.detail[i] = t
               /\ Cardinality({lp \in landing_page' :
                    lp.workflow_id = ReceivedWorkflow(s) /\ lp.template_id = t}) = 1]_vars

\* C5 amended: a generate call for a (workflow, template) pair that an
\* earlier, successful call has generated is refused at once with "workflow
\* is not in draft status" (the status check precedes the duplicate check),
\* it changes nothing, and one landing page exists for the pair.
C5_SecondCallFailsAsNotDraft ==
  [][\A s \in Sessions :
       (Received(s) /\ existing_pairs(ReceivedWorkflow(s), ReceivedTemplates(s)) # {}) =>
          /\ returned'.op = "generate"
          /\ returned'.session = s
          /\ returned'.response.code # 0
          /\ returned'.response.message = "workflow is not in draft status"
          /\ returned'.response.detail = <<ReceivedWorkflow(s)>>
          /\ UNCHANGED <<db, files, session>>
          /\ \A t \in existing_pairs(ReceivedWorkflow(s), ReceivedTemplates(s)) :
               Cardinality({lp \in landing_page' :
                 lp.workflow_id = ReceivedWorkflow(s) /\ lp.template_id = t}) = 1]_vars

C5_Witness ==
  /\ Generated
  /\ returned.response.message = "workflow is not in draft status"
  /\ existing_pairs(returned.workflow_id, returned.template_ids) # {}
  /\ workflow[returned.workflow_id].status = "pending_ad"

\* C6: a generate call on a workflow whose status is pending_ad, ready or
\* archived is rejected with "workflow is not in draft status", and it leaves
\* the landing pages and the workflow's status as they were.
C6_NonDraftRejected ==
  [][\A s \in Sessions :
       (/\ Received(s)
        /\ ReceivedWorkflow(s) \in DOMAIN workflow
        /\ workflow[ReceivedWorkflow(s)].status \in {"pending_ad", "ready", "archived"}) =>
          /\ returned'.op = "generate"
          /\ returned'.session = s
          /\ returned'.response.code # 0
          /\ returned'.response.message = "workflow is not in draft status"
          /\ landing_page' = landing_page
          /\ workflow' = workflow
          /\ session' = session]_vars

C6_Witness ==
  /\ Generated
  /\ returned.response.message = "workflow is not in draft status"
  /\ workflow[returned.workflow_id].status = "archived"
  /\ PagesOf(returned.workflow_id) # {}

\* C7: a workflow is created in draft, and its status becomes pending_ad only
\* in the commit of a successful generate call on that workflow: no failing
\* generate step, preview, archive, delete or template operation sets it.
C7_PendingAdOnlyByGenerate ==
  [][\A w \in DOMAIN workflow' :
       /\ w \notin DOMAIN workflow => workflow'[w].status = "draft"
       /\ (/\ w \in DOMAIN workflow
           /\ workflow[w].status # "pending_ad"
           /\ workflow'[w].status = "pending_ad") =>
            /\ \E s \in Sessions :
                 /\ session[s].pc = "commit"
                 /\ session[s].workflow_id = w
            /\ returned'.op = "generate"
            /\ returned'.workflow_id = w
            /\ returned'.response.code = 0]_vars

C7_Witness ==
  /\ Succeeded
  /\ workflow[returned.workflow_id].status = "pending_ad"
  /\ template_seq > 0

\* C8: each landing page a generate call creates has as selected video ids
\* the first max_videos ids of the request's list, in the request's order,
\* max_videos being that of the landing page's template.
C8_FirstMaxVideosInOrder ==
  Succeeded =>
    \A i \in DOMAIN returned.response.data :
      LET item == returned.response.data[i]
          n == template[item.template_id].max_videos
      IN /\ Len(item.selected_video_ids) = n
         /\ \A j \in 1..n : item.selected_video_ids[j] = returned.video_ids[j]
         /\ \E lp \in landing_page :
              /\ lp.id = item.id
              /\ lp.template_id = item.template_id
              /\ lp.selected_video_ids = item.selected_video_ids

C8_Witness ==
  /\ Succeeded
  /\ \E i \in DOMAIN returned.response.data :
       Len(returned.response.data[i].selected_video_ids) < Len(returned.video_ids)

\* C9: after a successful generate call with k distinct template ids, the
\* workflow has k landing pages, its status is pending_ad, and the generated
\* page URLs of the k landing pages are pairwise distinct.
C9_KPagesPendingAdDistinctUrls ==
  Succeeded =>
    LET k == Cardinality(Range(returned.template_ids))
        pages == PagesOf(returned.workflow_id)
    IN /\ Cardinality(pages) = k
       /\ Len(returned.response.data) = k
       /\ workflow[returned.workflow_id].status = "pending_ad"
       /\ \A a \in pages, b \in pages :
            a # b => a.generated_page_url # b.generated_page_url
       /\ \A a \in pages : a.generated_page_url # ""
       /\ \A i \in DOMAIN returned.response.data, j \in DOMAIN returned.response.data :
            i # j => returned.response.data[i].generated_page_url
                       # returned.response.data[j].generated_page_url

C9_Witness ==
  /\ Succeeded
  /\ Cardinality(Range(returned.template_ids)) = 2
  /\ Cardinality(PagesOf(returned.workflow_id)) = 2

\* the requested templates that need more videos than the request supplies
ShortTemplates ==
  {t \in Range(returned.template_ids) \cap DOMAIN template :
     Len(returned.video_ids) < template[t].max_videos}

\* C10: a generate request (for a draft workflow and registered templates)
\* that supplies fewer video ids than one of its templates' max_videos fails
\* with "template needs more videos", naming that template's id, the count it
\* requires and the count supplied; no landing page is created and the
\* workflow stays in draft.
C10_TooFewVideosRejected ==
  (/\ Generated
   /\ returned.response.message \notin
        {"workflow not found", "workflow is not in draft status", "some templates not found"}
   /\ ShortTemplates # {}) =>
     /\ returned.response.code # 0
     /\ returned.response.message = "template needs more videos"
     /\ \E t \in ShortTemplates :
          returned.response.detail = <<t, template[t].max_videos, Len(returned.video_ids)>>
     /\ returned.rolled_back = {}
     /\ PagesOf(returned.workflow_id) = {}
     /\ workflow[returned.workflow_id].status = "draft"

C10_Witness ==
  /\ Generated
  /\ returned.response.message = "template needs more videos"
  /\ Cardinality(Range(returned.template_ids)) = 2
  /\ Cardinality(ShortTemplates) = 1
  /\ workflow[returned.workflow_id].status = "draft"

\* the requested template ids that name no template row
MissingTemplates == Range(returned.template_ids) \ DOMAIN template

\* the call got past the workflow checks: the workflow exists and is in draft
PastWorkflowChecks ==
  /\ Generated
  /\ returned.response.message \notin
       {"workflow not found", "workflow is not in draft status"}

\* C11: a generate call on a draft workflow in which some requested template
\* id names no template fails, creates no landing page for any template of
\* the request (the existing ones included) and leaves the workflow in draft.
C11_MissingTemplateFailsWhole ==
  (PastWorkflowChecks /\ MissingTemplates # {}) =>
     /\ returned.response.code # 0
     /\ returned.response.message = "some templates not found"
     /\ returned.rolled_back = {}
     /\ PagesOf(returned.workflow_id) = {}
     /\ returned.workflow_id \in DOMAIN workflow
     /\ workflow[returned.workflow_id].status = "draft"

\* one requested template exists, the other does not
C11_Witness ==
  /\ PastWorkflowChecks
  /\ MissingTemplates # {}
  /\ Range(returned.template_ids) \cap DOMAIN template # {}
  /\ workflow[returned.workflow_id].status = "draft"

\* C12: when generate fails because requested template ids name no template,
\* the reason returned to the caller lists the template ids that failed to
\* resolve.
C12_FailureListsMissingIds ==
  (Generated /\ returned.response.message = "some templates not found") =>
     /\ MissingTemplates # {}
     /\ \A t \in MissingTemplates :
          \E i \in DOMAIN returned.response.detail : returned.response.detail[i] = t

\* the request's template-id list names some id more than once
RepeatsTemplateIds ==
  Len(returned.template_ids) > Cardinality(Range(returned.template_ids))

\* C13: template ids repeated inside one generate request are collapsed
\* silently: a request that repeats ids, all of which exist, passes the
\* existence check, and on success there is exactly one landing page for each
\* distinct template id, never two for one template.
C13_RepeatedIdsCollapsed ==
  (Generated /\ RepeatsTemplateIds) =>
     /\ (PastWorkflowChecks /\ MissingTemplates = {}) =>
           returned.response.message # "some templates not found"
     /\ Succeeded =>
          LET pages == PagesOf(returned.workflow_id)
              distinct == Range(returned.template_ids)
          IN /\ \A t \in distinct :
                  Cardinality({lp \in pages : lp.template_id = t}) = 1
             /\ Cardinality(pages) = Cardinality(distinct)
             /\ Len(returned.response.data) = Cardinality(distinct)
             /\ \A i \in DOMAIN returned.response.data, j \in DOMAIN returned.response.data :
                  i # j => returned.response.data[i].template_id
                             # returned.response.data[j].template_id

C13_Witness ==
  /\ Succeeded
  /\ RepeatsTemplateIds
  /\ Cardinality(PagesOf(returned.workflow_id)) = 1

\* C14: whenever a generate call that found the workflow in draft comes to a
\* workflow that already has a landing page for some of the requested
\* templates, it fails with a reason that lists exactly the conflicting
\* template ids in ascending order, and it generates nothing: no landing page
\* is created and no output file written, for the templates without a
\* conflict either.
C14_ConflictsListedAscending ==
  [][\A s \in Sessions :
       LET r == session[s]
           conflicts == {lp.template_id : lp \in
                          {x \in landing_page : /\ x.workflow_id = r.workflow_id
                                                /\ x.template_id \in Range(r.template_ids)}}
           detail == returned'.response.detail
       IN (r.pc = "check_existing" /\ session'[s] # r /\ conflicts # {}) =>
            /\ returned'.op = "generate"
            /\ returned'.session = s
            /\ returned'.response.code # 0
            /\ returned'.response.message = "landing page already exists"
            /\ {detail[i] : i \in DOMAIN detail} = conflicts
            /\ \A i \in DOMAIN detail, j \in DOMAIN detail : i < j => detail[i] < detail[j]
            /\ returned'.rolled_back = {}
            /\ r.pending = << >>
            /\ session'[s] = Idle
            /\ UNCHANGED <<landing_page, landing_page_seq, workflow, files>>]_vars

\* both templates of the request conflict
C14_Witness ==
  /\ Generated
  /\ returned.response.message = "landing page already exists"
  /\ Len(returned.response.detail) = 2
  /\ Cardinality(PagesOf(returned.workflow_id)) = 2

\* the precondition failures of generate, in the order of the checks
PreconditionFailures ==
  << "workflow not found",
     "workflow is not in draft status",
     "some templates not found",
     "template needs more videos",
     "landing page already exists" >>

\* slot s takes a step
Steps(s) == session'[s] # session[s] \/ (returned'.op = "generate" /\ returned'.session = s)

\* the step of slot s reports this failure to the caller
Reports(s, message) ==
  /\ returned'.op = "generate"
  /\ returned'.session = s
  /\ returned'.response.code # 0
  /\ returned'.response.message = message

\* the step of slot s reports nothing and goes on to the next check
GoesOn(s, pc) == returned' = NoCall /\ session'[s].pc = pc

\* C15: generate evaluates its preconditions in the order workflow exists,
\* workflow is draft, all templates exist, enough videos for every template,
\* no landing page yet for a requested template: each check reports its own
\* reason, a request that violates several preconditions is answered with
\* the reason of the first one violated, and a check is reached only when
\* the checks before it passed.
C15_PreconditionsInOrder ==
  [][\A s \in Sessions :
       LET r == session[s]
           w == IF r.pc = "idle" THEN ReceivedWorkflow(s) ELSE r.workflow_id
           tids == IF r.pc = "idle" THEN ReceivedTemplates(s) ELSE r.template_ids
           missing == Range(tids) \ DOMAIN template
           short == {t \in Range(tids) \cap DOMAIN template :
                       Len(r.video_ids) < template[t].max_videos}
           conflicts == {t \in Range(tids) :
                           \E lp \in landing_page : lp.workflow_id = w /\ lp.template_id = t}
       IN Steps(s) =>
            /\ r.pc = "idle" =>
                 IF w \notin DOMAIN workflow THEN Reports(s, PreconditionFailures[1])
                 ELSE IF workflow[w].status # "draft" THEN Reports(s, PreconditionFailures[2])
                 ELSE GoesOn(s, "select_templates")
            /\ r.pc = "select_templates" =>
                 IF missing # {} THEN Reports(s, PreconditionFailures[3])
                 ELSE IF short # {} THEN Reports(s, PreconditionFailures[4])
                 ELSE GoesOn(s, "check_existing")
            /\ r.pc = "check_existing" =>
                 IF conflicts # {} THEN Reports(s, PreconditionFailures[5])
                 ELSE GoesOn(s, "process")
            /\ r.pc \in {"process", "commit"} =>
                 \A i \in 1..Len(PreconditionFailures) :
                   ~Reports(s, PreconditionFailures[i])
            /\ \A i, j \in 1..Len(PreconditionFailures) :
                 i # j => PreconditionFailures[i] # PreconditionFailures[j]]_vars

\* a call is answered "some templates not found" although one of its
\* templates also needs more videos and already has a landing page
C15_Witness ==
  /\ Generated
  /\ returned.response.message = "some templates not found"
  /\ \E t \in Range(returned.template_ids) \cap DOMAIN template :
       /\ Len(returned.video_ids) < template[t].max_videos
       /\ \E lp \in landing_page :
            lp.workflow_id = returned.workflow_id /\ lp.template_id = t

\* C16: every step of a generate call other than its successful commit,
\* and so every failing call whatever the failure, leaves the workflow
\* statuses and the persisted landing pages exactly as they were; the
\* successful commit adds landing pages of its workflow and leaves the
\* workflow in pending_ad; no draft workflow has a landing page and every
\* pending_ad workflow has one.
C16_FailureChangesNothing ==
  [][/\ \A s \in Sessions :
          Steps(s) =>
            IF returned'.op = "generate" /\ returned'.session = s
                 /\ returned'.response.code = 0
            THEN LET w == returned'.workflow_id IN
                 /\ landing_page \subseteq landing_page'
                 /\ landing_page' # landing_page
                 /\ \A lp \in landing_page' \ landing_page : lp.workflow_id = w
                 /\ workflow'[w].status = "pending_ad"
                 /\ \A o \in DOMAIN workflow \ {w} : workflow'[o] = workflow[o]
            ELSE UNCHANGED <<workflow, landing_page>>
     /\ \A w \in DOMAIN workflow' :
          /\ workflow'[w].status = "draft" => \A lp \in landing_page' : lp.workflow_id # w
          /\ workflow'[w].status = "pending_ad" => \E lp \in landing_page' : lp.workflow_id = w]_vars

\* a generate call fails after it flushed a row, while the workflow holds
\* the landing pages another call committed
C16_Witness ==
  /\ Generated
  /\ returned.response.code # 0
  /\ returned.rolled_back # {}
  /\ returned.workflow_id \in DOMAIN workflow
  /\ workflow[returned.workflow_id].status = "pending_ad"
  /\ PagesOf(returned.workflow_id) # {}
  /\ \A lp \in returned.rolled_back : lp \notin landing_page

\* C17: every failure of a generate call reaches the caller as a failure
\* response of the handler (code 1 and a message), never as an unhandled
\* exception, which the server answers with 500 Internal Server Error.
C17_FailuresAreStructured ==
  Generated => returned.response # InternalServerError

\* a preview call of either kind has just returned
Previewed == returned.op \in {"preview", "template_preview"}

PreviewDirs ==
  { Join(_get_generated_root, <<"preview">>),
    Join(_get_generated_root, <<"template_preview">>) }

\* C18: a preview call of either kind, successful or not, leaves every
\* LandingPage record, every workflow and the rest of the database as they
\* were, also the rows a generate call under way has inserted; on disk it
\* removes nothing and adds at most one file, inside a preview directory.
C18_PreviewTouchesNoRecord ==
  [][returned'.op \in {"preview", "template_preview"} =>
       /\ UNCHANGED <<landing_page, workflow, db, session>>
       /\ files \subseteq files'
       /\ Cardinality(files' \ files) <= 1
       /\ \A f \in files' \ files : parent(f) \in PreviewDirs]_vars

\* a preview of a template alone has succeeded and written its file while
\* a pending_ad workflow holds a landing page of that template
C18_Witness ==
  /\ returned.op = "template_preview"
  /\ returned.response.code = 0
  /\ returned.written # << >>
  /\ returned.written[1].path \in files
  /\ \E lp \in landing_page :
       /\ lp.template_id = returned.template_ids[1]
       /\ workflow[lp.workflow_id].status = "pending_ad"

\* the failures of preview_landing_page that come from writing the page
PreviewWriteFailed ==
  \/ returned.response = InternalServerError
  \/ returned.response.message = "failed to write preview html file"

\* what a preview_landing_page call that has just returned must have
\* answered, given whether the page could be written
PreviewAnswer(writable) ==
  LET id == returned.template_ids[1]
      video_ids == returned.video_ids
      response == returned.response
  IN
  IF id \notin DOMAIN template
  THEN /\ response.code = 1
       /\ response.message = "template not found"
       /\ returned.written = << >>
  ELSE IF Len(video_ids) < template[id].max_videos
  THEN /\ response = Response(1, "template needs more videos",
                              <<id, template[id].max_videos, Len(video_ids)>>, << >>)
       /\ returned.written = << >>
  ELSE (/\ html_path(template[id].html_file_path) # << >>
        /\ response.message # "failed to read template html file"
        /\ writable)
       => /\ response.code = 0
          /\ Len(returned.written) = 1
          /\ returned.written[1].selected_ids =
               [i \in 1..template[id].max_videos |-> video_ids[i]]
          /\ returned.written[1].path \in files

\* C19 as stated: preview_landing_page fails with not-found when the
\* template does not exist, with the shortfall failure of generate when
\* fewer video ids than max_videos are supplied, and otherwise succeeds
\* whenever the template file resolves and is readable, whatever the state
\* of the workflows and the landing pages, its page embedding the first
\* max_videos ids in the supplied order.
C19_PreviewSucceedsWhenReadable ==
  returned.op = "preview" => PreviewAnswer(TRUE)

\* C19 amended: as above, with success promised only when in addition the
\* preview directory can be created and the preview file written.
C19_PreviewSucceedsWhenWritable ==
  returned.op = "preview" => PreviewAnswer(~PreviewWriteFailed)

\* a preview succeeds with more videos than the template takes, for a
\* template that has a landing page in an archived workflow
C19_Witness ==
  /\ returned.op = "preview"
  /\ returned.response.code = 0
  /\ Len(returned.video_ids) > Len(returned.written[1].selected_ids)
  /\ \E lp \in landing_page :
       /\ lp.template_id = returned.template_ids[1]
       /\ workflow[lp.workflow_id].status = "archived"

\* C20: a committed LandingPage record stays in the table with the same
\* workflow id, template id, ordered selection and output URL through every
\* step of every operation (generate calls, previews, archive, edits and
\* deletions of templates and videos), except the successful deletion of
\* its owning workflow.
C20_CommittedPagesStay ==
  [][\A lp \in landing_page :
       \/ lp \in landing_page'
       \/ /\ returned'.op = "delete"
          /\ returned'.response.code = 0
          /\ returned'.workflow_id = lp.workflow_id
          /\ lp.workflow_id \notin DOMAIN workflow']_vars

\* the deletion of a template has just failed on a landing page that refers
\* to it, after the template was edited, the page's first video deleted and
\* its workflow archived
C20_Witness ==
  /\ returned.op = "delete_template"
  /\ returned.response = InternalServerError
  /\ \E lp \in landing_page :
       /\ lp.template_id \in DOMAIN template
       /\ template[lp.template_id].max_videos # Len(lp.selected_video_ids)
       /\ lp.selected_video_ids[1] \notin DOMAIN video
       /\ workflow[lp.workflow_id].status = "archived"

\* C21: a delete call on an existing workflow succeeds whatever the
\* status, and removes that workflow and exactly the landing pages it owns;
\* the other workflows, their landing pages, the templates, the videos and
\* the files stay as they were. A delete call on an id that is not in the
\* table answers "workflow not found" and changes nothing.
C21_DeleteTakesOwnPagesOnly ==
  [][returned'.op = "delete" =>
       LET w == returned'.workflow_id IN
       IF w \in DOMAIN workflow
       THEN /\ returned'.response.code = 0
            /\ DOMAIN workflow' = DOMAIN workflow \ {w}
            /\ \A o \in DOMAIN workflow' : workflow'[o] = workflow[o]
            /\ landing_page' = {lp \in landing_page : lp.workflow_id # w}
            /\ UNCHANGED <<template, video, files>>
       ELSE /\ returned'.response.code = 1
            /\ returned'.response.message = "workflow not found"
            /\ UNCHANGED <<db, files, session>>]_vars

\* a workflow has been deleted with the landing page it owned, and the
\* landing page of the other workflow is still there
C21_Witness ==
  /\ returned.op = "delete"
  /\ returned.response.code = 0
  /\ returned.removed # {}
  /\ landing_page # {}
  /\ \A lp \in landing_page : lp.workflow_id # returned.workflow_id
  /\ \A lp \in returned.removed : lp.workflow_id = returned.workflow_id

\* C22: a workflow's status becomes archived only in the step of an archive
\* call on that workflow made while its status is ready. An archive call on
\* a workflow in any other status fails with "workflow is not in ready
\* status" and one on a missing workflow with "workflow not found"; both
\* leave every status and the landing pages as they were.
C22_ArchivedOnlyFromReady ==
  [][/\ \A w \in DOMAIN workflow' :
          (/\ workflow'[w].status = "archived"
           /\ ~(w \in DOMAIN workflow /\ workflow[w].status = "archived"))
          => /\ w \in DOMAIN workflow
             /\ workflow[w].status = "ready"
             /\ returned'.op = "archive"
             /\ returned'.workflow_id = w
             /\ returned'.response.code = 0
     /\ returned'.op = "archive" =>
          LET w == returned'.workflow_id IN
          /\ UNCHANGED landing_page
          /\ IF w \notin DOMAIN workflow
             THEN /\ returned'.response.code = 1
                  /\ returned'.response.message = "workflow not found"
                  /\ UNCHANGED workflow
             ELSE IF workflow[w].status # "ready"
             THEN /\ returned'.response.code = 1
                  /\ returned'.response.message = "workflow is not in ready status"
                  /\ UNCHANGED workflow
             ELSE /\ returned'.response.code = 0
                  /\ workflow' = [workflow EXCEPT ![w].status = "archived"]]_vars

\* an archive call has just been refused on a pending_ad workflow, which
\* keeps its status and its landing page
C22_Witness ==
  /\ returned.op = "archive"
  /\ returned.response.code = 1
  /\ returned.workflow_id \in DOMAIN workflow
  /\ workflow[returned.workflow_id].status = "pending_ad"
  /\ PagesOf(returned.workflow_id) # {}

\* the resolution loop has just run
Resolved == returned.op = "html_path"

\* the file a path names, relative paths taken from the working directory
OnDiskAt(path) == Join(cwd, path) \in files

\* C23: template file resolution gives the first of the four candidates
\* (the path as given, under the project root, under the repository root,
\* under the templates root) that is a regular file, and nothing when none
\* is: for every path and every set of files the result is fixed by them,
\* and a path present under several roots resolves to the one of highest
\* priority.
C23_FirstExistingCandidate ==
  Resolved =>
    LET raw == returned.args[1] IN
    returned.value =
      IF OnDiskAt(raw) THEN raw
      ELSE IF OnDiskAt(Join(project_root, raw)) THEN Join(project_root, raw)
      ELSE IF OnDiskAt(Join(repo_root, raw)) THEN Join(repo_root, raw)
      ELSE IF OnDiskAt(Join(_get_templates_root, raw)) THEN Join(_get_templates_root, raw)
      ELSE << >>

\* a relative path that is a file under the project root, the repository
\* root and the templates root resolves to the one under the project root
C23_Witness ==
  /\ Resolved
  /\ ~is_absolute(returned.args[1])
  /\ returned.value = Join(project_root, returned.args[1])
  /\ Join(repo_root, returned.args[1]) \in files
  /\ Join(_get_templates_root, returned.args[1]) \in files

\* the answer of a handler whose template file resolution found nothing
TemplateFileNotFound(html_file_path) ==
  Response(1, "template html file not found", <<html_file_path>>, << >>)

\* C24: when none of the four candidates is a regular file the handler
\* answers "template html file not found" with the path as stored in the
\* template. In generate the rows the call inserted are rolled back, no
\* landing page is persisted, the workflow is not changed and no file is
\* written for that template; in both previews no file is written.
C24_NothingResolvedFails ==
  [][/\ \A s \in Sessions :
          (/\ Steps(s)
           /\ session[s].pc = "process"
           /\ html_path(session[s].templates[Len(session[s].pending) + 1].html_file_path)
                = << >>)
          => /\ returned'.op = "generate"
             /\ returned'.session = s
             /\ \/ returned'.response = InternalServerError
                \/ returned'.response = TemplateFileNotFound(
                     session[s].templates[Len(session[s].pending) + 1].html_file_path)
             /\ Pending(s) \subseteq returned'.rolled_back
             /\ session'[s] = Idle
             /\ UNCHANGED <<landing_page, workflow, files>>
     /\ returned'.op \in {"preview", "template_preview"} =>
          LET id == returned'.template_ids[1] IN
          (/\ id \in DOMAIN template
           /\ returned'.op = "preview" =>
                Len(returned'.video_ids) >= template[id].max_videos
           /\ html_path(template[id].html_file_path) = << >>)
          => /\ returned'.response = TemplateFileNotFound(template[id].html_file_path)
             /\ returned'.written = << >>
             /\ UNCHANGED files]_vars

\* a generate call has answered "template html file not found" for its
\* second template after it had written the page of the first one
C24_Witness ==
  /\ Generated
  /\ returned.response.message = "template html file not found"
  /\ returned.response.detail = <<<<"gone", "index.html">>>>
  /\ \E lp \in returned.rolled_back : lp.generated_page_url # ""
  /\ landing_page = {}

\* the two patterns of the prefix substitution
HrefPattern == <<HREF, DOT, SLASH>>

SrcPattern == <<SRC, DOT, SLASH>>

\* one pass of the substitution over the document has just been made
Substituted == returned.op = "substitute"

\* what C25 says of one pass: the output has no occurrence of either
\* pattern, a second pass leaves it as it is, and putting the patterns back
\* for the rewritten addresses gives the input document
OnePassIsFinal ==
  LET html_content == returned.args[1]
      prefix == static_prefix(returned.args[2])
      out == returned.value
  IN /\ ~contains(out, HrefPattern)
     /\ ~contains(out, SrcPattern)
     /\ substitute(out, prefix) = out
     /\ replace(replace(out, <<SRC>> \o prefix \o <<SLASH>>, SrcPattern),
                <<HREF>> \o prefix \o <<SLASH>>, HrefPattern) = html_content

\* the prefix, followed by its slash, spells neither pattern
PlainPrefix(prefix) ==
  /\ ~contains(prefix \o <<SLASH>>, HrefPattern)
  /\ ~contains(prefix \o <<SLASH>>, SrcPattern)

\* C25 as stated: for every document and every derived prefix, one pass of
\* the substitution replaces every occurrence of href="./ and src="./ by
\* href="<prefix>/ and src="<prefix>/, so that its output contains neither
\* and a second pass leaves it unchanged.
C25_OnePassLeavesNoPattern ==
  Substituted => OnePassIsFinal

\* C25 amended: the same for every document and every derived prefix that,
\* followed by a slash, does not itself contain href="./ or src="./.
C25_OnePassWithPlainPrefix ==
  (Substituted /\ PlainPrefix(static_prefix(returned.args[2]))) => OnePassIsFinal

\* href="./a.css" twice in a document has become href="/templates/a.css"
C25_Witness ==
  /\ Substituted
  /\ returned.args = << HrefPattern \o <<"a.css">> \o HrefPattern, NoAssets >>
  /\ returned.value = <<HREF, SLASH, "templates", SLASH, "a.css",
                        HREF, SLASH, "templates", SLASH>>

\* the script tag has just been put into a document
Injected == returned.op = "inject"

\* the places of a piece in a text
Places(text, piece) == {i \in 1..Len(text) : text[i] = piece}

\* C26: the rewriter puts exactly one script tag with the selected ids into
\* the document: in front of the first </body> (with a line break between
\* the tag and </body>) when there is one, later </body> left alone, and at
\* the very end when there is none; the text before and after the tag is
\* the document's, in order.
C26_OneTagBeforeFirstBody ==
  Injected =>
    LET html_content == returned.args[1]
        tag == snippet(returned.args[2])
        out == returned.value
        bodies == Places(html_content, BODY)
    IN /\ IF bodies = {}
          THEN out = html_content \o tag
          ELSE LET first == CHOOSE i \in bodies : \A j \in bodies : i <= j
               IN out = SubSeq(html_content, 1, first - 1) \o tag \o <<NEWLINE>>
                          \o SubSeq(html_content, first, Len(html_content))
       /\ Cardinality(Places(out, SCRIPT)) = Cardinality(Places(html_content, SCRIPT)) + 1
       /\ Cardinality(Places(out, BODY)) = Cardinality(bodies)

\* a document with two </body> has the tag in front of the first one
C26_Witness ==
  /\ Injected
  /\ returned.args = << <<"a.css", BODY, BODY>>, <<20, 10>> >>
  /\ returned.value[2] = SCRIPT
  /\ returned.value[Len(returned.value)] = BODY
  /\ returned.value[Len(returned.value) - 1] = BODY

\* json.loads of the text of a list of int; << -1 >> stands for a text
\* that is not such a list
json_loads(text) ==
  LET n == Len(text)
      items == SubSeq(text, 2, n - 1)
      number(piece) == {id \in 0..99 : ToString(id) = piece}
  IN IF n < 2 \/ text[1] # "[" \/ text[n] # "]" THEN << -1 >>
     ELSE IF items = << >> THEN << >>
     ELSE IF \/ Len(items) % 2 = 0
             \/ \E i \in 1..Len(items) :
                  IF i % 2 = 0 THEN items[i] # ", " ELSE number(items[i]) = {}
     THEN << -1 >>
     ELSE [i \in 1..((Len(items) + 1) \div 2) |->
             CHOOSE id \in number(items[2 * i - 1]) : TRUE]

\* the text between the script tag and its end tag
ScriptBody(text) ==
  LET open == CHOOSE i \in Places(text, SCRIPT) : TRUE
      close == CHOOSE i \in Places(text, END_SCRIPT) : TRUE
  IN SubSeq(text, open + 1, close - 1)

\* C27: for every ordered list of video ids given to the rewriter, the
\* empty list and lists with repeated ids included, the body of the script
\* tag it puts into the page decodes to exactly that list, same elements in
\* the same order.
C27_ScriptBodyDecodesToIds ==
  Injected => json_loads(ScriptBody(returned.value)) = returned.args[2]

\* a list that repeats an id has been written as [20, 20]
C27_Witness ==
  /\ Injected
  /\ returned.args[2] = <<20, 20>>
  /\ ScriptBody(returned.value) = <<"[", "20", ", ", "20", "]">>

\* the prefix of a stored assets path has just been derived
Prefixed == returned.op = "static_prefix"

\* a relative path leaves the directory it starts from: at some point it
\* has gone up more often than down
RECURSIVE Ups(_)
Ups(p) == IF p = << >> THEN 0 ELSE (IF p[1] = ".." THEN 1 ELSE -1) + Ups(Tail(p))

ClimbsOut(p) == \E k \in 1..Len(p) : Ups(SubSeq(p, 1, k)) > 0

\* the assets path points outside the templates root
PointsOutside(static_assets_path) ==
  /\ static_assets_path # NoAssets
  /\ IF is_absolute(static_assets_path)
     THEN \/ ~startswith(static_assets_path, _get_templates_root)
          \/ ClimbsOut(SubSeq(static_assets_path, Len(_get_templates_root) + 1,
                              Len(static_assets_path)))
     ELSE ClimbsOut(static_assets_path)

\* C28: whenever the stored assets path points outside the templates root
\* (an absolute path elsewhere, or a relative path that climbs out through
\* ..), the derived prefix is the bare "/templates".
C28_OutsideGivesBarePrefix ==
  (Prefixed /\ PointsOutside(returned.args[1])) =>
    returned.value = <<SLASH, "templates">>

\* a preview of a template alone has just returned
TemplatePreviewed == returned.op = "template_preview"

\* the failures of preview_template that come from reading the template
\* file or writing the page
TemplatePreviewIoFailed ==
  \/ returned.response = InternalServerError
  \/ returned.response.message = "failed to read template html file"
  \/ returned.response.message = "failed to write template preview html file"

\* the preview succeeded and its page carries the array []
EmptySelectionPage ==
  /\ returned.response.code = 0
  /\ Len(returned.written) = 1
  /\ json_dumps(returned.written[1].selected_ids) = <<"[", "]">>
  /\ returned.written[1].path \in files

\* C29 as stated: the preview keyed by a template id alone has no
\* video-count precondition and always embeds the empty selection: for every
\* existing template whose file resolves, whatever its max_videos, the call
\* succeeds and the page carries [].
C29_TemplatePreviewSucceeds ==
  (/\ TemplatePreviewed
   /\ returned.template_ids[1] \in DOMAIN template
   /\ html_path(template[returned.template_ids[1]].html_file_path) # << >>)
  => EmptySelectionPage

\* C29 amended: the same, for every existing template whose file resolves
\* and can be read and whose preview page can be written.
C29_TemplatePreviewSucceedsWhenWritable ==
  (/\ TemplatePreviewed
   /\ returned.template_ids[1] \in DOMAIN template
   /\ html_path(template[returned.template_ids[1]].html_file_path) # << >>
   /\ ~TemplatePreviewIoFailed)
  => EmptySelectionPage

\* the preview of a template that asks for two videos has succeeded
C29_Witness ==
  /\ TemplatePreviewed
  /\ returned.template_ids[1] \in DOMAIN template
  /\ template[returned.template_ids[1]].max_videos = 2
  /\ EmptySelectionPage

\* C30: every generate call returns, with success or with a failure, also
\* when another call for the same workflow and the same templates runs at
\* the same time: a call never holds more rows than it was asked distinct
\* templates, and no call stays under way forever.
C30_EveryCallReturns ==
  /\ [](\A s \in Sessions :
          Len(session[s].pending) <= Cardinality(Range(session[s].template_ids)))
  /\ \A s \in Sessions : (session[s].pc # "idle") ~> (session[s].pc = "idle")

\* two calls wait for each other's row: each has inserted one template of
\* the workflow and asks for the one the other has inserted
C30_Witness ==
  \E s \in Sessions :
    /\ Inserting(s)
    /\ Pending(s) # {}
    /\ Deadlocked(s)

\* the directories generate writes its pages to
OutputDirs == {Join(_get_generated_root, <<ToString(w)>>) : w \in 1..(MaxWorkflows + 1)}

\* the step that writes an output file is one in which the landing_page
\* sequence has handed out an id to a row of the writing call, and the file
\* is the one keyed by the call's workflow and that id
WrittenUnderOwnId ==
  \A f \in files' \ files :
    parent(f) \in OutputDirs =>
      \E s \in Sessions :
        /\ session[s].pc = "process"
        /\ landing_page_seq' = landing_page_seq + 1
        /\ f = output_path(session[s].workflow_id, landing_page_seq')
        /\ \/ \E i \in DOMAIN session'[s].pending :
                session'[s].pending[i].id = landing_page_seq'
           \/ \E lp \in returned'.rolled_back : lp.id = landing_page_seq'

\* every page a successful call returns is on disk at the path of its
\* workflow and id, and the URL returned and the URL stored name that file
UrlsNameWrittenFiles ==
  Succeeded =>
    \A i \in DOMAIN returned.response.data :
      LET item == returned.response.data[i]
          file == output_path(returned.workflow_id, item.id)
      IN /\ file \in files
         /\ item.generated_page_url = mounted_url(file)
         /\ \E lp \in landing_page :
              /\ lp.id = item.id
              /\ lp.workflow_id = returned.workflow_id
              /\ lp.generated_page_url = mounted_url(file)

\* C31: in generate, for every template of the batch the landing page is
\* allocated its id before the output file is written (no step writes an
\* output file under an id the sequence has not handed to a row of the
\* call), the file is written at the path keyed by the workflow id and
\* exactly that id, and the URL stored in the record and returned to the
\* caller names that same file.
C31_IdThenFileThenUrl ==
  /\ [][WrittenUnderOwnId]_vars
  /\ []UrlsNameWrittenFiles

\* a call that has written and committed two pages returns them
C31_Witness ==
  /\ Succeeded
  /\ Len(returned.response.data) = 2
  /\ \A i \in DOMAIN returned.response.data :
       output_path(returned.workflow_id, returned.response.data[i].id) \in files

\* this step is the one in which a generate call returns a failure
FailsNow ==
  /\ Delivered
  /\ returned'.op = "generate"
  /\ returned'.response.code # 0

\* the rows of the failing call whose page had been written: their files
\* are on disk and no persisted landing page has their id or their URL
EarlierFilesOrphaned ==
  \A lp \in returned'.rolled_back :
    lp.generated_page_url # "" =>
      /\ output_path(lp.workflow_id, lp.id) \in files'
      /\ \A x \in landing_page' :
           x.id # lp.id /\ x.generated_page_url # lp.generated_page_url

\* the failing pass and the passes it cut off have written nothing
NothingWrittenAtFailure ==
  /\ files' = files
  /\ \A lp \in returned'.rolled_back :
       lp.generated_page_url = "" => output_path(lp.workflow_id, lp.id) \notin files'
  /\ session'[returned'.session] = Idle

EarlierFilesStay == [][FailsNow => EarlierFilesOrphaned]_vars

\* C32: after a generate call that failed at the k-th template of its
\* batch, the output files already written for templates 1..k-1 are still
\* on disk although no persisted landing page refers to them, and no file
\* was written for the k-th or later templates.
C32_FailedBatchLeavesEarlierFilesOnly ==
  [][FailsNow => EarlierFilesOrphaned /\ NothingWrittenAtFailure]_vars

\* this step is one in which a file is removed from disk
Unlinked == files \ files' # {}

\* C33: if the template file disappears between the moment the resolver
\* found it and the moment it is read, generate returns the read-failure
\* reason, persists no landing page of the batch and leaves the workflow in
\* draft, and a preview returns a failure without writing a file; the race
\* never produces a success or a partial commit.
C33_VanishedFileFailsCleanly ==
  [][Unlinked =>
       /\ returned'.op \in {"generate", "preview", "template_preview"}
       /\ returned'.response.code = 1
       /\ returned'.response.message = "failed to read template html file"
       /\ files' \subseteq files
       /\ returned'.written = << >>
       /\ UNCHANGED <<workflow, landing_page>>
       /\ returned'.op = "generate" =>
            /\ workflow'[returned'.workflow_id].status = "draft"
            /\ \A x \in landing_page' : x.workflow_id # returned'.workflow_id
            /\ \A lp \in returned'.rolled_back : \A x \in landing_page' : x.id # lp.id
            /\ session'[returned'.session] = Idle]_vars

\* the file went while generate was at the second template of its batch
C33_Witness ==
  /\ Generated
  /\ returned.response.message = "failed to read template html file"
  /\ TemplateFiles \cap files = {}
  /\ Cardinality(returned.rolled_back) = 2
  /\ workflow[returned.workflow_id].status = "draft"

\* one of the three handlers has derived a prefix
PrefixDerived ==
  returned.op \in {"static_prefix", "preview_static_prefix",
                   "template_preview_static_prefix"}

\* the assets path has a location relative to the templates root: it is
\* relative, or it is absolute and lies under the root
HasLocation(static_assets_path) ==
  \/ ~is_absolute(static_assets_path)
  \/ startswith(static_assets_path, _get_templates_root)

\* that location: a relative path is its own location, an absolute one is
\* located by what follows the root
Location(static_assets_path) ==
  IF is_absolute(static_assets_path)
  THEN SubSeq(static_assets_path, Len(_get_templates_root) + 1, Len(static_assets_path))
  ELSE static_assets_path

\* C34: the static prefix is "/templates" when the template has no
\* static-assets path, and otherwise "/templates/" followed by the assets
\* path's location relative to the templates root (where it has one), the
\* path being taken as absolute when absolute and as relative to the
\* templates root when relative; generate and both preview operations
\* derive the same prefix for the same assets path.
C34_PrefixFromLocation ==
  PrefixDerived =>
    LET a == returned.args[1] IN
    /\ a = NoAssets => returned.value = <<SLASH, "templates">>
    /\ a # NoAssets /\ HasLocation(a) =>
         returned.value = <<SLASH, "templates", SLASH>> \o as_posix(Location(a))
    /\ static_prefix(a) = returned.value
    /\ preview_static_prefix(a) = returned.value
    /\ template_preview_static_prefix(a) = returned.value

\* preview_template has derived the prefix of an absolute assets path
\* below the templates root
C34_Witness ==
  /\ returned.op = "template_preview_static_prefix"
  /\ is_absolute(returned.args[1])
  /\ returned.value = <<SLASH, "templates", SLASH, "home", SLASH, "static">>

\* C35: in every reachable state, under any sequence or interleaving of
\* operations, a workflow whose persisted status is draft owns no persisted
\* landing page, so the duplicate-generation check of a call whose workflow
\* is in draft when it runs finds no conflict.
C35_DraftOwnsNoPage ==
  /\ \A w \in DOMAIN workflow :
       workflow[w].status = "draft" => PagesOf(w) = {}
  /\ \A s \in Sessions :
       /\ session[s].pc = "check_existing"
       /\ session[s].workflow_id \in DOMAIN workflow
       /\ workflow[session[s].workflow_id].status = "draft"
       => existing_pairs(session[s].workflow_id, session[s].template_ids) = {}

\* a call has flushed the rows of its two templates and not committed: the
\* workflow is in draft and none of the rows is persisted
C35_Witness ==
  \E s \in Sessions :
    /\ session[s].pc = "commit"
    /\ Len(session[s].pending) = 2
    /\ workflow[session[s].workflow_id].status = "draft"
    /\ PagesOf(session[s].workflow_id) = {}

\* a workflow that is not in draft is not in draft after the step, and the
\* id of a deleted workflow is not given to a new one
StaysOutOfDraft ==
  \A w \in 1..workflow_seq :
    IF w \in DOMAIN workflow
    THEN workflow[w].status # "draft" =>
           (w \in DOMAIN workflow' => workflow'[w].status # "draft")
    ELSE w \notin DOMAIN workflow'

\* the step in which a generate call returns success takes its workflow
\* out of draft
SuccessLeavesDraft ==
  Delivered /\ returned'.op = "generate" /\ returned'.response.code = 0 =>
    /\ workflow[returned'.workflow_id].status = "draft"
    /\ workflow'[returned'.workflow_id].status # "draft"

\* C36: once a workflow's status has left draft it never becomes draft
\* again under any operation of the program, so for every workflow at most
\* one generate call ever succeeds when calls are made one after another:
\* a successful call finds its workflow in draft and takes it out of draft.
C36_NeverDraftAgain == [][StaysOutOfDraft /\ SuccessLeavesDraft]_vars

\* a generate call for a workflow that was generated with two templates
\* and made ready is refused, and the pages of the one successful call are
\* there
C36_Witness ==
  /\ Generated
  /\ returned.response.message = "workflow is not in draft status"
  /\ workflow[returned.workflow_id].status = "ready"
  /\ Cardinality(PagesOf(returned.workflow_id)) = 2

OutOfDraftForGood == [][StaysOutOfDraft]_vars

\* C37: no persisted landing page ever has an empty output URL: the empty
\* URL a row is flushed with is seen only inside the generating call, and
\* every committed row's URL is the path built from the generated-content
\* root, its workflow id and its own id.
C37_CommittedUrlIsSet ==
  /\ \A lp \in landing_page :
       /\ lp.generated_page_url # ""
       /\ lp.generated_page_url =
            "/generated/" \o ToString(lp.workflow_id) \o "/" \o ToString(lp.id) \o ".html"
  /\ \A lp \in returned.rolled_back :
       lp.generated_page_url = "" => \A x \in landing_page : x.id # lp.id

\* a call returns a failure and the row it had flushed with the empty URL,
\* while the rows an overlapping call committed are persisted
C37_Witness ==
  /\ Generated
  /\ \E lp \in returned.rolled_back : lp.generated_page_url = ""
  /\ landing_page # {}

\* C38: in every reachable state, under any interleaving of generate with
\* delete_workflow and delete_template, every persisted landing page
\* references a workflow that exists and a template that exists; a generate
\* call racing with the deletion of its workflow never leaves a landing
\* page whose workflow is gone.
C38_PagesReferenceExistingRows ==
  /\ \A lp \in landing_page :
       /\ lp.workflow_id \in DOMAIN workflow
       /\ lp.template_id \in DOMAIN template
  /\ Generated /\ returned.workflow_id \notin DOMAIN workflow =>
       /\ returned.response.code # 0
       /\ PagesOf(returned.workflow_id) = {}

\* the workflow was deleted while a generate call for it was under way:
\* the call has passed the workflow check and fails at its first INSERT
C38_Witness ==
  /\ Generated
  /\ returned.response = InternalServerError
  /\ returned.workflow_id \notin DOMAIN workflow
  /\ returned.workflow_id <= workflow_seq
  /\ Range(returned.template_ids) \subseteq DOMAIN template

\* one of the three handlers has made the text of a page
Rendered ==
  returned.op \in {"generate_html_content", "preview_html_content",
                   "template_preview_html_content"}

\* C39: for the same template, the same filesystem state and the same
\* supplied video-id list, the page text written by preview is identical to
\* the page text written by generate for that template, and the text of
\* the template-only preview is the text both give for the empty selection.
C39_SameTextInAllThree ==
  Rendered =>
    LET t == returned.args[1]
        video_ids == returned.args[2]
    IN /\ returned.op # "template_preview_html_content" =>
            /\ returned.value = generate_html_content(t, video_ids)
            /\ returned.value = preview_html_content(t, video_ids)
       /\ returned.op = "template_preview_html_content" =>
            /\ returned.value = generate_html_content(t, << >>)
            /\ returned.value = preview_html_content(t, << >>)

\* preview has made the text of a page from a file with two </body> that
\* is found at the templates root only, for a template with an assets path
\* and a list longer than the template takes
C39_Witness ==
  /\ returned.op = "preview_html_content"
  /\ returned.args[1].static_assets_path = <<"home">>
  /\ returned.args[1].html_file_path = <<"home", "index.html">>
  /\ Len(returned.args[2]) > returned.args[1].max_videos
  /\ Cardinality(Places(returned.value, BODY)) = 2
  /\ Cardinality(ResolvePlaces \cap files) = 1
  /\ contains(returned.value, <<SRC, SLASH, "templates", SLASH, "home", SLASH, "a.js">>)

\* an archive call that has just returned
Archived == returned.op = "archive"

\* C40: no operation of the program sets a workflow's status to ready, so
\* for workflows whose status is changed only by the program's own
\* operations the status is always draft or pending_ad, and no archive call
\* ever succeeds.
C40_NeverReadyNeverArchived ==
  /\ \A w \in DOMAIN workflow : workflow[w].status \in {"draft", "pending_ad"}
  /\ Archived => returned.response.code = 1

\* an archive call for a generated workflow is refused
C40_Witness ==
  /\ Archived
  /\ returned.response.message = "workflow is not in ready status"
  /\ workflow[returned.workflow_id].status = "pending_ad"
  /\ Cardinality(PagesOf(returned.workflow_id)) = 2

====
